---- MODULE Spec2Model ----
(***************************************************************************)
(* InfraLLM: the request lifecycle (infrallm_api), the policy validation   *)
(* (src.llm), the Terraform generation gate (src.terraform) and the policy *)
(* store (src.config) as one state machine.                                *)
(*                                                                         *)
(* Conventions.  A Python value that may be None is None == <<>> or        *)
(* Some(x) == <<x>>.  A string whose characters the code inspects          *)
(* (resource_name, environment, tag values) is a sequence of one-character *)
(* strings; Str turns it into the text that appears in messages.  A dict   *)
(* is a function on the set of its keys.  The result of a call is          *)
(* Return(v) or Raise(e); an exception e is a record with its class cls    *)
(* and its message msg (str(e)).                                           *)
(***************************************************************************)
EXTENDS Naturals, Sequences, FiniteSets, TLC

\* store, tasks, clock: the request store, the scheduled background tasks and
\* the time; policy_source, policy_cache: policies.yaml and the lru_cache of
\* load_policies; call: a component called outside a lifecycle run (its
\* arguments, and what it returned or raised), None when there is none
VARIABLES store, tasks, clock, policy_source, policy_cache, call

vars == <<store, tasks, clock, policy_source, policy_cache, call>>

----------------------------------------------------------------------------
(* Bounds *)

MaxRequests == 2

RequestIds == 1..MaxRequests

----------------------------------------------------------------------------
(* Python values *)

None == <<>>

Some(x) == <<x>>

Return(v) == [ret |-> v]

Raise(e) == [exc |-> e]

Raised(r) == "exc" \in DOMAIN r

Get(d, k, default) == IF k \in DOMAIN d THEN d[k] ELSE default

EmptyDict == [k \in {} |-> None]

RECURSIVE Str(_)
Str(s) == IF s = <<>> THEN "" ELSE Head(s) \o Str(Tail(s))

StartsWith(s, p) == Len(s) >= Len(p) /\ SubSeq(s, 1, Len(p)) = p

\* str.split(sep) for a one-character separator: the segments between separators
RECURSIVE SplitFrom(_, _, _)
SplitFrom(s, sep, cur) ==
    IF s = <<>> THEN <<cur>>
    ELSE IF Head(s) = sep THEN <<cur>> \o SplitFrom(Tail(s), sep, <<>>)
    ELSE SplitFrom(Tail(s), sep, Append(cur, Head(s)))

Split(s, sep) == SplitFrom(s, sep, <<>>)

Whitespace == {" "}

RECURSIVE LStrip(_)
LStrip(s) == IF s # <<>> /\ Head(s) \in Whitespace THEN LStrip(Tail(s)) ELSE s

RECURSIVE RStrip(_)
RStrip(s) ==
    IF s # <<>> /\ s[Len(s)] \in Whitespace THEN RStrip(SubSeq(s, 1, Len(s) - 1)) ELSE s

Strip(s) == RStrip(LStrip(s))

\* sep.join(items) as the sequence of its pieces: items with sep between them
RECURSIVE Join(_, _)
Join(items, sep) ==
    IF items = <<>> THEN <<>>
    ELSE IF Len(items) = 1 THEN <<items[1]>>
    ELSE <<items[1], sep>> \o Join(Tail(items), sep)

LowerChars ==
    {"a", "b", "c", "d", "e", "f", "g", "h", "i", "j", "k", "l", "m",
     "n", "o", "p", "q", "r", "s", "t", "u", "v", "w", "x", "y", "z"}

DigitChars == {"0", "1", "2", "3", "4", "5", "6", "7", "8", "9"}

DEV == <<"d", "e", "v">>

PROD == <<"p", "r", "o", "d">>

STAGING == <<"s", "t", "a", "g", "i", "n", "g">>

POSTGRES == <<"p", "o", "s", "t", "g", "r", "e", "s">>

MYSQL == <<"m", "y", "s", "q", "l">>

----------------------------------------------------------------------------
(* Exceptions: src/llm/exceptions.py, src/terraform/exceptions.py,         *)
(* src/git/exceptions.py                                                   *)

\* the classes an exception of class cls is an instance of
Mro(cls) ==
    {cls, "Exception"} \cup
    (IF cls \in {"llm.ConfigurationError", "APIError", "ValidationError", "ParsingError"}
        THEN {"InfraLLMError"} ELSE {}) \cup
    (IF cls \in {"git.ConfigurationError", "BranchCreationError", "CommitError",
                 "PullRequestError", "RepositoryNotFoundError"}
        THEN {"GitHubError"} ELSE {})

IsInstance(e, cls) == cls \in Mro(e.cls)

Exc(cls, msg) == [cls |-> cls, msg |-> msg]

\* ValidationError.__init__: keeps the list, the message holds only the count
ValidationError(violations) ==
    [cls |-> "ValidationError",
     msg |-> IF Len(violations) = 1 THEN "Policy validation failed: 1 violation"
             ELSE "Policy validation failed: n violations",
     violations |-> violations]

----------------------------------------------------------------------------
(* Policy Store: src/config/loader.py                                      *)
(* The policy source is what is on disk at src/config/policies.yaml:       *)
(* [t |-> "absent"], [t |-> "unparsable"] (a YAML error), [t |-> "scalar"] *)
(* (valid YAML whose root is no mapping) or [t |-> "doc", v |-> mapping].  *)
(* tags.required is tagged with its YAML type: PyList(seq) or PyStr(s).    *)

PyList(v) == [t |-> "list", v |-> v]

PyStr(v) == [t |-> "str", v |-> v]

NamingPattern == "{environment}-{application}-{resource}"

RequiredTags == <<"Environment", "Owner">>

GoodPolicies ==
    [naming |-> [pattern |-> NamingPattern],
     tags |-> [required |-> PyList(RequiredTags)],
     security |-> [encryption_required |-> TRUE],
     resources |-> [s3 |-> [versioning |-> TRUE, encryption |-> "AES256"],
                    rds |-> [allowed_engines |-> <<POSTGRES, MYSQL>>,
                             min_backup_days |-> 7,
                             encryption |-> TRUE],
                    eks |-> [min_nodes |-> 2, private_endpoint |-> TRUE]]]

\* GoodPolicies without its security section
NoSecurityPolicies ==
    [naming |-> GoodPolicies.naming,
     tags |-> GoodPolicies.tags,
     resources |-> GoodPolicies.resources]

PolicySources ==
    {[t |-> "doc", v |-> GoodPolicies],
     [t |-> "doc", v |-> NoSecurityPolicies],
     [t |-> "absent"]}

\* a YAML value that is no mapping is tagged with its type: PyList, PyStr
\* (of characters) or YamlNull; a mapping is a function of its keys
YamlNull == [t |-> "null"]

IsMapping(x) == "t" \notin DOMAIN x

PATTERN_KEY == <<"p", "a", "t", "t", "e", "r", "n">>

REQUIRED_KEY == <<"r", "e", "q", "u", "i", "r", "e", "d">>

\* Python's `key in x`: a key of a mapping, a substring of a string, an
\* element of a list, and a TypeError on None
Contains(key, x) ==
    IF IsMapping(x) THEN Return(Str(key) \in DOMAIN x)
    ELSE IF x.t = "str"
        THEN Return(\E i \in 1..Len(x.v) : i + Len(key) - 1 <= Len(x.v)
                                            /\ SubSeq(x.v, i, i + Len(key) - 1) = key)
    ELSE IF x.t = "list" THEN Return(\E i \in 1..Len(x.v) : x.v[i] = Str(key))
    ELSE Raise(Exc("TypeError", "argument of type 'NoneType' is not iterable"))

\* _validate_policies: None when the structure is accepted, else the error
validate_policies(policies) ==
    IF \E section \in {"naming", "tags", "security", "resources"} :
           section \notin DOMAIN policies
        THEN Some(Exc("llm.ConfigurationError",
                      "Invalid policies.yaml: missing required section"))
    ELSE IF Raised(Contains(PATTERN_KEY, policies["naming"]))
        THEN Some(Contains(PATTERN_KEY, policies["naming"]).exc)
    ELSE IF ~Contains(PATTERN_KEY, policies["naming"]).ret
        THEN Some(Exc("llm.ConfigurationError",
                      "Invalid policies.yaml: naming section missing 'pattern' field"))
    ELSE IF Raised(Contains(REQUIRED_KEY, policies["tags"]))
        THEN Some(Contains(REQUIRED_KEY, policies["tags"]).exc)
    ELSE IF ~Contains(REQUIRED_KEY, policies["tags"]).ret
        THEN Some(Exc("llm.ConfigurationError",
                      "Invalid policies.yaml: tags section missing 'required' field"))
    ELSE IF ~IsMapping(policies["tags"])
        THEN Some(Exc("TypeError", "indices must be integers"))
    ELSE IF policies["tags"]["required"].t # "list"
        THEN Some(Exc("llm.ConfigurationError",
                      "Invalid policies.yaml: tags.required must be a list"))
    ELSE None

\* the body of load_policies (a cache miss): reads and validates the source
read_policies(source) ==
    IF source.t = "absent"
        THEN Raise(Exc("llm.ConfigurationError", "Policies file not found"))
    ELSE IF source.t = "unparsable"
        THEN Raise(Exc("llm.ConfigurationError", "Failed to parse policies.yaml"))
    ELSE IF source.t # "doc"
        THEN Raise(Exc("llm.ConfigurationError",
                       "Invalid policies.yaml: root element must be a dictionary"))
    ELSE IF validate_policies(source.v) # None
        THEN Raise(validate_policies(source.v)[1])
    ELSE Return(source.v)

\* load_policies without its cache
load_policies_uncached(cache, source) == read_policies(source)

\* load_policies under lru_cache(maxsize=1): a cached ruleset is returned as
\* is; a miss reads the source; only a returned value is cached
load_policies(cache, source) ==
    IF cache # None THEN Return(cache[1]) ELSE read_policies(source)

\* the cache after a call of load_policies
cache_after_load(cache, source) ==
    IF cache # None THEN cache
    ELSE IF Raised(read_policies(source)) THEN None
    ELSE Some(read_policies(source).ret)

----------------------------------------------------------------------------
(* The specification schema: src/llm/models.py                             *)

ResourceTypes == {"rds", "s3", "eks", "vpc"}

Environments == {DEV, STAGING, PROD}

MinNameLength == 3

MaxNameLength == 63

SchemaError(msg) == Raise(Exc("PydanticValidationError", msg))

\* InfrastructureRequest(**data) for a mapping data: the validated model, or
\* pydantic's ValidationError.  Field constraints are checked on the value as
\* given, the field validators after them, in the order of their definition;
\* a field validator does not run on a default value.
InfrastructureRequest(data) ==
    IF "resource_type" \notin DOMAIN data \/ "resource_name" \notin DOMAIN data
       \/ "environment" \notin DOMAIN data
        THEN SchemaError("Field required")
    ELSE IF data["resource_type"] \notin ResourceTypes
        THEN SchemaError("resource_type: Input should be 'rds', 's3', 'eks' or 'vpc'")
    ELSE IF Len(data["resource_name"]) < MinNameLength
        THEN SchemaError("resource_name: String should have at least 3 characters")
    ELSE IF Len(data["resource_name"]) > MaxNameLength
        THEN SchemaError("resource_name: String should have at most 63 characters")
    ELSE IF Strip(data["resource_name"]) = <<>>
        THEN SchemaError("resource_name cannot be empty or whitespace")
    ELSE IF \E i \in 1..Len(Strip(data["resource_name"])) :
               Strip(data["resource_name"])[i] \notin LowerChars \cup DigitChars \cup {"-"}
        THEN SchemaError("resource_name must contain only lowercase letters, numbers, and hyphens")
    ELSE IF "parameters" \in DOMAIN data /\ DOMAIN data["parameters"] = {}
        THEN SchemaError("parameters cannot be empty - at least one parameter is required")
    ELSE IF data["environment"] \notin Environments
        THEN SchemaError("environment: Input should be 'dev', 'staging' or 'prod'")
    ELSE IF "tags" \in DOMAIN data /\ DOMAIN data["tags"] = {}
        THEN SchemaError("tags cannot be empty - required organizational tags must be present")
    ELSE Return([resource_type |-> data["resource_type"],
                 resource_name |-> Strip(data["resource_name"]),
                 parameters |-> Get(data, "parameters", EmptyDict),
                 environment |-> data["environment"],
                 tags |-> Get(data, "tags", EmptyDict)])

----------------------------------------------------------------------------
(* Specification Validator: src/llm/validator.py                           *)

DigitStr(d) == <<"0", "1", "2", "3", "4", "5", "6", "7", "8", "9">>[d + 1]

RECURSIVE NatStr(_)
NatStr(n) == IF n < 10 THEN DigitStr(n) ELSE NatStr(n \div 10) \o DigitStr(n % 10)

\* ", ".join(items) as text, for a list of character sequences
RECURSIVE JoinText(_, _)
JoinText(items, sep) ==
    IF items = <<>> THEN ""
    ELSE IF Len(items) = 1 THEN Str(items[1])
    ELSE Str(items[1]) \o sep \o JoinText(Tail(items), sep)

UpperSeq ==
    <<"A", "B", "C", "D", "E", "F", "G", "H", "I", "J", "K", "L", "M",
      "N", "O", "P", "Q", "R", "S", "T", "U", "V", "W", "X", "Y", "Z">>

LowerSeq ==
    <<"a", "b", "c", "d", "e", "f", "g", "h", "i", "j", "k", "l", "m",
      "n", "o", "p", "q", "r", "s", "t", "u", "v", "w", "x", "y", "z">>

LowerChar(c) ==
    IF \E i \in 1..Len(UpperSeq) : UpperSeq[i] = c
        THEN LowerSeq[CHOOSE i \in 1..Len(UpperSeq) : UpperSeq[i] = c]
        ELSE c

\* str.lower()
Lower(s) == [i \in 1..Len(s) |-> LowerChar(s[i])]

\* x in list
InList(x, list) == \E i \in 1..Len(list) : list[i] = x

\* a naming check that looks at the environment prefix only
validate_naming_prefix_only(resource_name, pattern, environment, resource_type) ==
    IF ~StartsWith(resource_name, environment \o <<"-">>)
        THEN Some("Naming violation: Resource name must start with environment '"
                  \o Str(environment) \o "', got '" \o Str(resource_name) \o "'")
        ELSE None

\* None when the name is accepted, else the one naming violation
validate_naming_pattern(resource_name, pattern, environment, resource_type) ==
    IF ~StartsWith(resource_name, environment \o <<"-">>)
        THEN Some("Naming violation: Resource name must start with environment '"
                  \o Str(environment) \o "', got '" \o Str(resource_name) \o "'")
    ELSE IF Len(Split(resource_name, "-")) < 3
        THEN Some("Naming violation: Expected format '" \o pattern
                  \o "' with at least 3 parts (environment-application-resource), got '"
                  \o Str(resource_name) \o "' with "
                  \o NatStr(Len(Split(resource_name, "-"))) \o " parts")
    ELSE None

\* a tag check that reports all missing tags in one message
validate_required_tags_aggregate(tags, required_tags) ==
    IF \E i \in 1..Len(required_tags) :
           \/ required_tags[i] \notin DOMAIN tags
           \/ Strip(tags[required_tags[i]]) = <<>>
        THEN <<"Missing or empty required tags">>
        ELSE <<>>

RECURSIVE validate_required_tags(_, _)
validate_required_tags(tags, required_tags) ==
    IF required_tags = <<>> THEN <<>>
    ELSE (IF Head(required_tags) \notin DOMAIN tags
              THEN <<"Missing required tag: " \o Head(required_tags)>>
          ELSE IF tags[Head(required_tags)] = <<>>
                  \/ Strip(tags[Head(required_tags)]) = <<>>
              THEN <<"Required tag '" \o Head(required_tags) \o "' cannot be empty">>
          ELSE <<>>)
         \o validate_required_tags(tags, Tail(required_tags))

DefaultAllowedEngines == <<POSTGRES, MYSQL>>

DefaultMinBackupDays == 7

DefaultMinNodes == 2

validate_rds_constraints(parameters, policies) ==
    LET rds_policies == Get(policies, "rds", EmptyDict)
        allowed_engines == Get(rds_policies, "allowed_engines", DefaultAllowedEngines)
        engine == Lower(Get(parameters, "engine", <<>>))
        min_backup_days == Get(rds_policies, "min_backup_days", DefaultMinBackupDays)
        backup_retention == Get(parameters, "backup_retention_period", 0)
    IN  (IF ~InList(engine, allowed_engines)
             THEN <<"RDS: Engine '" \o Str(engine) \o "' not allowed. Allowed engines: "
                    \o JoinText(allowed_engines, ", ")>>
             ELSE <<>>)
        \o (IF backup_retention < min_backup_days
                THEN <<"RDS: Backup retention period (" \o NatStr(backup_retention)
                       \o " days) is less than required minimum ("
                       \o NatStr(min_backup_days) \o " days)">>
                ELSE <<>>)
        \o (IF Get(rds_policies, "encryption", TRUE)
               /\ ~Get(parameters, "storage_encrypted", FALSE)
                THEN <<"RDS: Storage encryption is required by organizational policy">>
                ELSE <<>>)

\* an S3 check that looks at the versioning only
validate_s3_constraints_versioning_only(parameters, policies) ==
    IF Get(Get(policies, "s3", EmptyDict), "versioning", TRUE)
       /\ ~Get(parameters, "versioning", FALSE)
        THEN <<"S3: Versioning is required by organizational policy">>
        ELSE <<>>

validate_s3_constraints(parameters, policies) ==
    LET s3_policies == Get(policies, "s3", EmptyDict)
        required_encryption == Get(s3_policies, "encryption", "AES256")
        encryption == Get(parameters, "encryption", "")
    IN  (IF Get(s3_policies, "versioning", TRUE) /\ ~Get(parameters, "versioning", FALSE)
             THEN <<"S3: Versioning is required by organizational policy">>
             ELSE <<>>)
        \o (IF encryption # required_encryption
                THEN <<"S3: Encryption must be '" \o required_encryption
                       \o "', got '" \o encryption \o "'">>
                ELSE <<>>)

RECURSIVE SumDesired(_)
SumDesired(node_groups) ==
    IF node_groups = <<>> THEN 0
    ELSE Get(Head(node_groups), "desired_size", 0) + SumDesired(Tail(node_groups))

validate_eks_constraints(parameters, policies) ==
    LET eks_policies == Get(policies, "eks", EmptyDict)
        min_nodes == Get(eks_policies, "min_nodes", DefaultMinNodes)
        total_nodes == SumDesired(Get(parameters, "node_groups", <<>>))
    IN  (IF total_nodes < min_nodes
             THEN <<"EKS: Total desired nodes (" \o NatStr(total_nodes)
                    \o ") is less than required minimum (" \o NatStr(min_nodes)
                    \o " nodes)">>
             ELSE <<>>)
        \o (IF Get(eks_policies, "private_endpoint", TRUE)
               /\ ~Get(parameters, "private_endpoint", FALSE)
                THEN <<"EKS: Private endpoint is required by organizational policy">>
                ELSE <<>>)

\* a validator that stops at the first check that finds a violation
validate_request_stopping(request, policies) ==
    LET naming_error ==
            validate_naming_pattern(request.resource_name,
                                    Get(Get(policies, "naming", EmptyDict), "pattern", ""),
                                    request.environment, request.resource_type)
        tag_violations ==
            validate_required_tags(request.tags,
                Get(Get(policies, "tags", EmptyDict), "required", PyList(<<>>)).v)
        resource_policies == Get(policies, "resources", EmptyDict)
    IN  IF naming_error # None THEN naming_error
        ELSE IF tag_violations # <<>> THEN tag_violations
        ELSE IF request.resource_type = "rds"
            THEN validate_rds_constraints(request.parameters, resource_policies)
        ELSE IF request.resource_type = "s3"
            THEN validate_s3_constraints(request.parameters, resource_policies)
        ELSE IF request.resource_type = "eks"
            THEN validate_eks_constraints(request.parameters, resource_policies)
        ELSE <<>>

\* the list of violations of a validated request under a ruleset
validate_request(request, policies) ==
    LET naming_error ==
            validate_naming_pattern(request.resource_name,
                                    Get(Get(policies, "naming", EmptyDict), "pattern", ""),
                                    request.environment, request.resource_type)
        required_tags == Get(Get(policies, "tags", EmptyDict), "required", PyList(<<>>)).v
        resource_policies == Get(policies, "resources", EmptyDict)
    IN  naming_error
        \o validate_required_tags(request.tags, required_tags)
        \o (IF request.resource_type = "rds"
                THEN validate_rds_constraints(request.parameters, resource_policies)
            ELSE IF request.resource_type = "s3"
                THEN validate_s3_constraints(request.parameters, resource_policies)
            ELSE IF request.resource_type = "eks"
                THEN validate_eks_constraints(request.parameters, resource_policies)
            ELSE <<>>)

----------------------------------------------------------------------------
(* Parameter Validator: src/terraform/validator.py                         *)

\* one message per field of required that params lacks, in the order of required
RECURSIVE MissingFields(_, _, _, _)
MissingFields(params, required, prefix, suffix) ==
    IF required = <<>> THEN <<>>
    ELSE (IF Head(required) \notin DOMAIN params
              THEN <<prefix \o Head(required) \o suffix>> ELSE <<>>)
         \o MissingFields(params, Tail(required), prefix, suffix)

ValidS3Encryption == <<"AES256", "aws:kms">>

validate_s3_parameters(params) ==
    MissingFields(params, <<"versioning", "encryption", "public_access_block">>,
                  "Missing required S3 parameter: ", "")
    \o (IF "encryption" \in DOMAIN params /\ ~InList(params["encryption"], ValidS3Encryption)
            THEN <<"S3 encryption must be one of ['AES256', 'aws:kms'], got '"
                   \o params["encryption"] \o "'">>
            ELSE <<>>)

NodeGroupLabel(i, ng) ==
    "Node group " \o NatStr(i) \o " ('" \o Get(ng, "name", "unnamed") \o "'): "

\* a range check that also rejects a desired_size on either limit
NodeGroupErrorsInclusive(i, ng) ==
    MissingFields(ng, <<"name", "instance_types", "desired_size", "min_size", "max_size">>,
                  NodeGroupLabel(i, ng) \o "missing required field '", "'")
    \o (IF {"desired_size", "min_size", "max_size"} \subseteq DOMAIN ng
            THEN (IF ng["desired_size"] <= ng["min_size"]
                      THEN <<NodeGroupLabel(i, ng) \o "desired_size ("
                             \o NatStr(ng["desired_size"]) \o ") cannot be less than min_size ("
                             \o NatStr(ng["min_size"]) \o ")">>
                      ELSE <<>>)
                 \o (IF ng["desired_size"] >= ng["max_size"]
                         THEN <<NodeGroupLabel(i, ng) \o "desired_size ("
                                \o NatStr(ng["desired_size"])
                                \o ") cannot be greater than max_size ("
                                \o NatStr(ng["max_size"]) \o ")">>
                         ELSE <<>>)
            ELSE <<>>)

\* the errors of node group ng, the i-th (from 0) of the list
NodeGroupErrors(i, ng) ==
    MissingFields(ng, <<"name", "instance_types", "desired_size", "min_size", "max_size">>,
                  NodeGroupLabel(i, ng) \o "missing required field '", "'")
    \o (IF {"desired_size", "min_size", "max_size"} \subseteq DOMAIN ng
            THEN (IF ng["desired_size"] < ng["min_size"]
                      THEN <<NodeGroupLabel(i, ng) \o "desired_size ("
                             \o NatStr(ng["desired_size"]) \o ") cannot be less than min_size ("
                             \o NatStr(ng["min_size"]) \o ")">>
                      ELSE <<>>)
                 \o (IF ng["desired_size"] > ng["max_size"]
                         THEN <<NodeGroupLabel(i, ng) \o "desired_size ("
                                \o NatStr(ng["desired_size"])
                                \o ") cannot be greater than max_size ("
                                \o NatStr(ng["max_size"]) \o ")">>
                         ELSE <<>>)
            ELSE <<>>)
    \o (IF "instance_types" \in DOMAIN ng /\ ng["instance_types"].t # "list"
            THEN <<NodeGroupLabel(i, ng) \o "instance_types must be a list">>
            ELSE <<>>)

RECURSIVE NodeGroupsErrors(_, _)
NodeGroupsErrors(node_groups, i) ==
    IF i >= Len(node_groups) THEN <<>>
    ELSE NodeGroupErrors(i, node_groups[i + 1]) \o NodeGroupsErrors(node_groups, i + 1)

validate_eks_parameters(params) ==
    (IF "kubernetes_version" \notin DOMAIN params
         THEN <<"Missing required EKS parameter: kubernetes_version">> ELSE <<>>)
    \o (IF "node_groups" \notin DOMAIN params \/ params["node_groups"] = <<>>
            THEN <<"EKS requires at least one node group">>
            ELSE NodeGroupsErrors(params["node_groups"], 0))
    \o (IF "private_endpoint" \notin DOMAIN params
            THEN <<"Missing required EKS parameter: private_endpoint">> ELSE <<>>)

validate_rds_parameters(params) ==
    MissingFields(params,
                  <<"engine", "engine_version", "instance_class", "allocated_storage",
                    "backup_retention_period", "storage_encrypted">>,
                  "Missing required RDS parameter: ", "")

validate_vpc_parameters(params) ==
    MissingFields(params, <<"cidr_block", "enable_dns_hostnames", "enable_dns_support">>,
                  "Missing required VPC parameter: ", "")

\* the validation_func table of TerraformGenerator.generate
validation_func(resource_type, params) ==
    IF resource_type = "s3" THEN validate_s3_parameters(params)
    ELSE IF resource_type = "eks" THEN validate_eks_parameters(params)
    ELSE IF resource_type = "rds" THEN validate_rds_parameters(params)
    ELSE validate_vpc_parameters(params)

----------------------------------------------------------------------------
(* Generation Orchestrator and Template Engine: src/terraform/generator.py *)
(* The template tree is what is on disk under src/terraform/templates:     *)
(* [exists |-> FALSE] or [exists |-> TRUE, files |-> the template paths,   *)
(* broken |-> path :> the class of the exception its rendering raises].   *)

TerraformGenerationError(msg) == Exc("TerraformGenerationError", msg)

RequiredFields == <<"resource_type", "resource_name", "parameters", "environment", "tags">>

SupportedTypes == <<"s3", "eks", "rds", "vpc">>

ResourceTemplates == <<"main.tf", "variables.tf", "outputs.tf">>

\* a shared set that lacks the backend template
CommonTemplatesProviderOnly == <<"provider.tf">>

CommonTemplates == <<"provider.tf", "backend.tf">>

TemplatePath(dir, filename) == dir \o "/" \o filename \o ".j2"

\* the templates of resource_type in the order _load_templates loads them:
\* <<output filename, template path>>
TemplateList(resource_type) ==
    [i \in 1..Len(ResourceTemplates) |->
        <<ResourceTemplates[i], TemplatePath(resource_type, ResourceTemplates[i])>>]
    \o [i \in 1..Len(CommonTemplates) |->
        <<CommonTemplates[i], TemplatePath("_common", CommonTemplates[i])>>]

AllTemplatePaths ==
    {TemplatePath(rt, ResourceTemplates[i]) : rt \in ResourceTypes, i \in 1..Len(ResourceTemplates)}
    \cup {TemplatePath("_common", CommonTemplates[i]) : i \in 1..Len(CommonTemplates)}

\* _load_templates: the loaded templates, or FileNotFoundError for the first
\* template that is missing
load_templates(tree, resource_type) ==
    LET wanted == TemplateList(resource_type)
        missing == {i \in 1..Len(wanted) : wanted[i][2] \notin tree.files}
        first == CHOOSE i \in missing : \A j \in missing : i <= j
    IN  IF missing # {}
            THEN Raise(Exc("FileNotFoundError",
                           (IF first <= Len(ResourceTemplates)
                                THEN "Required template not found: "
                                ELSE "Required common template not found: ")
                           \o wanted[first][2]))
            ELSE Return(wanted)

\* str.replace('-', '_')
sanitize_identifier(name) == [i \in 1..Len(name) |-> IF name[i] = "-" THEN "_" ELSE name[i]]

\* _prepare_context: the requirements plus the derived values; a failure of
\* load_policies is swallowed and the organization defaults
prepare_context(requirements, policies_result, now) ==
    [requirements |-> requirements,
     organization |->
        IF Raised(policies_result) THEN "your-organization"
        ELSE LET org_name == Get(Get(policies_result.ret, "organization", EmptyDict),
                                 "name", <<>>)
             IN  IF org_name = <<>> /\ "name" \notin DOMAIN Get(policies_result.ret,
                                                                "organization", EmptyDict)
                     THEN "your-organization"
                     ELSE Str([i \in 1..Len(org_name) |->
                                 IF Lower(org_name)[i] = " " THEN "-" ELSE Lower(org_name)[i]]),
     needs_vpc |-> requirements["resource_type"] \in {"eks", "rds"},
     generated_at |-> now,
     tf_resource_name |-> sanitize_identifier(requirements["resource_name"])]

\* template.render(**context): the text is determined by the template and the
\* context it is rendered with
render_template(template, context) ==
    [template |-> template,
     resource_name |-> Str(context.requirements["resource_name"]),
     environment |-> Str(context.requirements["environment"]),
     tf_resource_name |-> Str(context.tf_resource_name)]

\* steps 1 to 3 of generate: None, or the error that ends generation
generate_precheck(requirements) ==
    IF \E i \in 1..Len(RequiredFields) : RequiredFields[i] \notin DOMAIN requirements
        THEN Some(TerraformGenerationError("Missing required field in requirements"))
    ELSE IF ~InList(requirements["resource_type"], SupportedTypes)
        THEN Some(TerraformGenerationError(
                 "Unsupported resource type '" \o requirements["resource_type"] \o "'"))
    ELSE IF validation_func(requirements["resource_type"],
                            Get(requirements, "parameters", EmptyDict)) # <<>>
        THEN Some(TerraformGenerationError(
                 "Invalid parameters for " \o requirements["resource_type"]))
    ELSE None

\* generate reaches step 6 and renders templates with the requirements
renders(tree, requirements) ==
    /\ tree.exists
    /\ generate_precheck(requirements) = None
    /\ ~Raised(load_templates(tree, requirements["resource_type"]))

\* a rendering loop without the clause for exceptions that are no TemplateError
render_failure_uncaught(cls) ==
    IF cls = "TemplateError"
        THEN TerraformGenerationError("Template rendering failed: Error rendering template")
        ELSE Exc(cls, "raised by template.render")

\* what generate raises when template.render raised an exception of class
\* cls: _render_template turns a TemplateError into a TemplateError, which
\* the first clause of the rendering loop catches; the second catches the rest
render_failure(cls) ==
    IF cls = "TemplateError"
        THEN TerraformGenerationError("Template rendering failed: Error rendering template")
        ELSE TerraformGenerationError("Unexpected error during rendering")

\* TerraformGenerator().generate(requirements): the GeneratedTerraform or the
\* TerraformGenerationError
generate(tree, requirements, policies_result, now) ==
    IF ~tree.exists
        THEN Raise(TerraformGenerationError("Templates directory not found"))
    ELSE IF generate_precheck(requirements) # None
        THEN Raise(generate_precheck(requirements)[1])
    ELSE IF Raised(load_templates(tree, requirements["resource_type"]))
        THEN Raise(TerraformGenerationError(
                 "Templates not found for resource type '" \o requirements["resource_type"]
                 \o "': " \o load_templates(tree, requirements["resource_type"]).exc.msg))
    ELSE LET templates == load_templates(tree, requirements["resource_type"]).ret
             context == prepare_context(requirements, policies_result, now)
             failing == {i \in 1..Len(templates) : templates[i][2] \in DOMAIN tree.broken}
             first == CHOOSE i \in failing : \A j \in failing : i <= j
         IN  IF failing # {}
                 THEN Raise(render_failure(tree.broken[templates[first][2]]))
                 ELSE Return([resource_type |-> requirements["resource_type"],
                              resource_name |-> requirements["resource_name"],
                              environment |-> requirements["environment"],
                              files |-> [i \in 1..Len(templates) |->
                                            <<templates[i][1],
                                              render_template(templates[i][2], context)>>],
                              metadata |-> [timestamp |-> context.generated_at,
                                            policy_version |-> "1.0",
                                            generator_version |-> "0.1.0"]])

\* the tree of the repository: every template is there and renders
RepositoryTree == [exists |-> TRUE, files |-> AllTemplatePaths, broken |-> EmptyDict]

TemplateTrees ==
    {RepositoryTree,
     [RepositoryTree EXCEPT !.files = AllTemplatePaths \ {TemplatePath("_common", "backend.tf")}]}

----------------------------------------------------------------------------
(* Publication: src/git/github.py                                          *)
(* A GitHub scenario is how the remote answers each call of one create_pr: *)
(* "ok", a GithubException with its HTTP status ("404", "422", "500"), or  *)
(* "neterr": an exception that is no GithubException.                      *)

IsGithubException(answer) == answer \in {"404", "422", "500"}

\* the outer handler of create_pr for a GithubException that reaches it
outer_github_handler(answer) ==
    IF answer = "404"
        THEN Raise(Exc("RepositoryNotFoundError", "Repository 'org/repo' not found"))
        ELSE Raise(Exc("GitHubError", "GitHub API error: " \o answer))

branch_name_of(terraform, now) ==
    "infrallm/" \o Str(terraform.environment) \o "-" \o terraform.resource_type
    \o "-" \o Str(terraform.resource_name) \o "-" \o NatStr(now)

\* GitHubClient().create_pr(terraform, requirements): the result dict or the
\* exception that leaves it
create_pr(gh, terraform, requirements, now) ==
    IF ~gh.configured
        THEN Raise(Exc("git.ConfigurationError",
                       "GITHUB_TOKEN, GITHUB_ORG, and GITHUB_REPO must be provided"))
    ELSE IF gh.get_repo = "404"
        THEN Raise(Exc("RepositoryNotFoundError", "Repository 'org/repo' not found"))
    ELSE IF IsGithubException(gh.get_repo) THEN outer_github_handler(gh.get_repo)
    ELSE IF gh.get_repo = "neterr" THEN Raise(Exc("ConnectionError", "Connection refused"))
    ELSE IF IsGithubException(gh.get_git_ref) THEN outer_github_handler(gh.get_git_ref)
    ELSE IF gh.get_git_ref = "neterr" THEN Raise(Exc("ConnectionError", "Connection refused"))
    ELSE IF IsGithubException(gh.create_git_ref)
        THEN Raise(Exc("BranchCreationError",
                       "Failed to create branch '" \o branch_name_of(terraform, now) \o "'"))
    ELSE IF gh.create_git_ref = "neterr"
        THEN Raise(Exc("ConnectionError", "Connection refused"))
    ELSE IF gh.commit # "ok"
        THEN Raise(Exc("CommitError", "Failed to commit Terraform files"))
    ELSE IF IsGithubException(gh.create_pull)
        THEN Raise(Exc("PullRequestError", "Failed to create pull request"))
    ELSE IF gh.create_pull = "neterr"
        THEN Raise(Exc("ConnectionError", "Connection refused"))
    ELSE Return([pr_url |-> "https://github.com/org/repo/pull/" \o NatStr(gh.pr_number),
                 branch_name |-> branch_name_of(terraform, now),
                 pr_number |-> NatStr(gh.pr_number)])

GitHubOk ==
    [configured |-> TRUE, get_repo |-> "ok", get_git_ref |-> "ok", create_git_ref |-> "ok",
     commit |-> "ok", create_pull |-> "ok", pr_number |-> 7]

GitHubScenarios ==
    {GitHubOk,
     [GitHubOk EXCEPT !.create_git_ref = "422"]}

----------------------------------------------------------------------------
(* Parsing: src/llm/client.py                                              *)
(* The answer of the parsing service is [t |-> "raise", cls |-> class] or  *)
(* [t |-> "return", raw |-> text]; a text is [fenced |-> in a ``` block,   *)
(* body |-> what json.loads makes of the text inside]: [t |-> "invalid"],  *)
(* [t |-> "array"] or [t |-> "object", v |-> the mapping].                 *)

EmptyRequestMessage == "Infrastructure request cannot be empty"

\* step 5 before json.loads: the opening and the closing ``` line are dropped
strip_code_fence(raw) == [raw EXCEPT !.fenced = FALSE]

\* json.loads
json_loads(text) ==
    IF text.fenced \/ text.body.t = "invalid"
        THEN Raise(Exc("JSONDecodeError", "Expecting value"))
        ELSE Return(text.body)

json_loads_cleaned(raw) == json_loads(strip_code_fence(raw))

\* steps 5 to 8 of parse_infrastructure_request on the text of the response
parse_response(raw, policies) ==
    IF Raised(json_loads_cleaned(raw))
        THEN Raise(Exc("ParsingError", "Claude returned invalid JSON: "
                                        \o json_loads_cleaned(raw).exc.msg))
    ELSE IF json_loads_cleaned(raw).ret.t # "object"
        THEN Raise(Exc("TypeError",
                       "InfrastructureRequest() argument after ** must be a mapping"))
    ELSE IF Raised(InfrastructureRequest(json_loads_cleaned(raw).ret.v))
        THEN Raise(Exc("ParsingError", "Claude response does not match expected schema: "
                       \o InfrastructureRequest(json_loads_cleaned(raw).ret.v).exc.msg))
    ELSE LET validated_request == InfrastructureRequest(json_loads_cleaned(raw).ret.v).ret
             policy_violations == validate_request(validated_request, policies)
         IN  IF policy_violations # <<>>
                 THEN Raise(ValidationError(policy_violations))
                 ELSE Return(validated_request)

\* ClaudeClient().parse_infrastructure_request(request)
parse_infrastructure_request(api_key, request, policies_result, answer) ==
    IF ~api_key
        THEN Raise(Exc("llm.ConfigurationError",
                       "ANTHROPIC_API_KEY must be provided or set in environment."))
    ELSE IF request = <<>> \/ Strip(request) = <<>>
        THEN Raise(ValidationError(<<EmptyRequestMessage>>))
    ELSE IF Raised(policies_result) THEN policies_result
    ELSE IF answer.t = "raise" /\ answer.cls = "anthropic.APIError"
        THEN Raise(Exc("APIError", "Failed to call Claude API: " \o answer.cls))
    ELSE IF answer.t = "raise"
        THEN Raise(Exc("APIError", "Unexpected error calling Claude API: " \o answer.cls))
    ELSE parse_response(answer.raw, policies_result.ret)

\* parse_infrastructure_request calls load_policies
parse_loads_policies(api_key, request) ==
    api_key /\ ~(request = <<>> \/ Strip(request) = <<>>)

\* parse_infrastructure_request receives the text of a response
parse_receives(api_key, request, policies_result, answer) ==
    parse_loads_policies(api_key, request) /\ ~Raised(policies_result) /\ answer.t = "return"

\* what the text of a response is: no JSON, JSON that is no object, an object
\* the schema rejects, or an object that matches the schema
response_shape(raw) ==
    IF Raised(json_loads_cleaned(raw)) THEN "invalid_json"
    ELSE IF json_loads_cleaned(raw).ret.t # "object" THEN "not_object"
    ELSE IF Raised(InfrastructureRequest(json_loads_cleaned(raw).ret.v)) THEN "schema_mismatch"
    ELSE "matches"

\* the list validate_request returned in step 7, None when step 7 was not reached
validator_returned(api_key, request, policies_result, answer) ==
    IF parse_receives(api_key, request, policies_result, answer)
       /\ response_shape(answer.raw) = "matches"
        THEN Some(validate_request(
                 InfrastructureRequest(json_loads_cleaned(answer.raw).ret.v).ret,
                 policies_result.ret))
        ELSE None

Tag(v) == <<v>>

AllTags == [t \in {"Environment", "Owner"} |-> Tag("x")]

S3Params == [versioning |-> TRUE, encryption |-> "AES256", public_access_block |-> TRUE]

DevLogs == <<"d", "e", "v", "-", "a", "-", "l">>

ValidS3 ==
    [resource_type |-> "s3", resource_name |-> DevLogs, parameters |-> S3Params,
     environment |-> DEV, tags |-> AllTags]

Object(v) == [t |-> "object", v |-> v]

Text(body) == [fenced |-> FALSE, body |-> body]

\* the texts the parsing service is taken to answer with
Responses ==
    {Text([t |-> "invalid"]),
     Text([t |-> "array"]),
     Text(Object([resource_type |-> "s3", resource_name |-> DevLogs,
                  parameters |-> S3Params, tags |-> AllTags])),
     Text(Object(ValidS3)),
     [fenced |-> TRUE, body |-> Object(ValidS3)],
     Text(Object([ValidS3 EXCEPT !.parameters = [versioning |-> FALSE, encryption |-> "AES256"],
                                 !.tags = [t \in {"Environment"} |-> Tag("x")]])),
     Text(Object([ValidS3 EXCEPT !.parameters = [versioning |-> TRUE, encryption |-> "AES256"]]))}

Answers ==
    {[t |-> "return", raw |-> r] : r \in Responses}
    \cup {[t |-> "raise", cls |-> "anthropic.APIError"]}

----------------------------------------------------------------------------
(* Request store: infrallm_api/store.py                                    *)

QUEUED == "queued"

PARSING == "parsing"

GENERATING == "generating"

CREATING_PR == "creating_pr"

COMPLETED == "completed"

FAILED == "failed"

\* RequestStore.create: the entry of request_id is set, whatever was there
Create(st, request_id, request_text, requester, team, service, now) ==
    [id \in DOMAIN st \cup {request_id} |->
        IF id = request_id
            THEN [request_id |-> request_id,
                  request_text |-> request_text,
                  requester |-> requester,
                  team |-> team,
                  service |-> service,
                  status |-> QUEUED,
                  created_at |-> now,
                  pr_url |-> None,
                  pr_number |-> None,
                  branch_name |-> None,
                  error |-> None,
                  requirements |-> None,
                  completed_at |-> None]
            ELSE st[id]]

\* an update of which a reader sees the status before the other fields
UpdateStatusFirst(st, request_id, fields) ==
    [st EXCEPT ![request_id] = [status |-> fields.status] @@ st[request_id]]

\* RequestStore.update(request_id, **fields) for a request_id of the store:
\* the given fields are set, the others kept
Update(st, request_id, fields) ==
    [st EXCEPT ![request_id] = fields @@ st[request_id]]

----------------------------------------------------------------------------
(* Submission: infrallm_api/main.py                                        *)

\* a request_id that is the same for every call
RepeatedRequestId(st) == 1

\* request_id = "req-" + uuid4().hex[:12]: a token that no earlier call
\* returned.  The tokens are opaque to the code, which neither orders nor
\* inspects them, so the least unused one stands for any fresh token.
NewRequestId(st) == CHOOSE id \in RequestIds \ DOMAIN st : \A other \in RequestIds \ DOMAIN st : id <= other

ALICE == "alice@company.com"

BOB == "bob@company.com"

\* the bodies of POST /api/v1/provision that are submitted
Payloads ==
    {[request |-> <<"d", "b">>, requester |-> ALICE, team |-> None, service |-> None,
      environment |-> None],
     [request |-> <<"d", "b">>, requester |-> BOB, team |-> Some("payments-team"),
      service |-> None, environment |-> Some(PROD)]}

\* the task background_tasks.add_task schedules, with the locals of its run
NewTask(request_id, payload) ==
    [request_id |-> request_id,
     request_text |-> payload.request,
     requester |-> payload.requester,
     environment |-> payload.environment,
     pc |-> "scheduled",
     requirements |-> None,
     terraform |-> None,
     exc |-> None,
     \* history of the run, read by the properties only
     shape |-> None,
     violations |-> None,
     parsed |-> None,
     rendered |-> None]

\* provision_infrastructure
Submit(payload) ==
    /\ Len(tasks) < MaxRequests
    /\ LET request_id == NewRequestId(store)
       IN  /\ store' = Create(store, request_id, payload.request, payload.requester,
                              payload.team, payload.service, clock)
           /\ tasks' = Append(tasks, NewTask(request_id, payload))
    /\ clock' = clock + 1
    /\ UNCHANGED <<policy_source, policy_cache, call>>

----------------------------------------------------------------------------
(* Lifecycle run: infrallm_api/worker.py                                   *)

\* the except clause of process_provision_request that catches e, by the
\* prefix it writes: the first clause, top down, whose classes e is an instance of
HandlerPrefix(e) ==
    IF IsInstance(e, "llm.ConfigurationError") THEN "Configuration error: "
    ELSE IF IsInstance(e, "ValidationError") THEN "Policy validation failed: "
    ELSE IF IsInstance(e, "ParsingError") THEN "Failed to parse request: "
    ELSE IF IsInstance(e, "TerraformGenerationError") THEN "Failed to generate Terraform: "
    ELSE IF IsInstance(e, "GitHubError") \/ IsInstance(e, "Exception") THEN "GitHub error: "
    ELSE "Unexpected error: "

\* an error text that holds the message of the exception only, which for a
\* ValidationError is the number of violations
ErrorTextOfMessage(e) == <<HandlerPrefix(e), e.msg>>

\* the error text a handler records, as the sequence of its pieces
ErrorText(e) ==
    IF HandlerPrefix(e) = "Policy validation failed: "
        THEN <<HandlerPrefix(e)>>
             \o (IF "violations" \in DOMAIN e THEN Join(e.violations, "; ") ELSE <<e.msg>>)
        ELSE <<HandlerPrefix(e), e.msg>>

\* an except clause that records the error and leaves the status as it is
FailedFieldsKeepingStatus(e, now) ==
    [error |-> Some(ErrorText(e)), completed_at |-> Some(now)]

\* the fields of the update of the except clause that catches e
FailedFields(e, now) ==
    [status |-> FAILED, error |-> Some(ErrorText(e)), completed_at |-> Some(now)]

\* an update before the parsing call that also resets the team
ParsingFieldsResettingTeam == [status |-> PARSING, team |-> None]

\* the fields of the update before the parsing call
ParsingFields == [status |-> PARSING]

\* an update before the generation call that writes the status of the
\* publication phase
GeneratingFieldsSkipping(requirements) ==
    [status |-> CREATING_PR, requirements |-> Some(requirements)]

\* the fields of the update before the generation call
GeneratingFields(requirements) ==
    [status |-> GENERATING, requirements |-> Some(requirements)]

\* a publication call that is made while the status is still generating
CreatingPrFieldsLate == [status |-> GENERATING]

\* the fields of the update before the publication call
CreatingPrFields == [status |-> CREATING_PR]

\* an update after the publication call that sets no completion timestamp
CompletedFieldsUntimed(pr_result, now) ==
    [status |-> COMPLETED,
     pr_url |-> Some(pr_result.pr_url),
     pr_number |-> Some(pr_result.pr_number),
     branch_name |-> Some(pr_result.branch_name)]

\* the fields of the update after the publication call returned pr_result
CompletedFields(pr_result, now) ==
    [status |-> COMPLETED,
     pr_url |-> Some(pr_result.pr_url),
     pr_number |-> Some(pr_result.pr_number),
     branch_name |-> Some(pr_result.branch_name),
     completed_at |-> Some(now)]

\* the run starts: status parsing is written, then the parsing call is made
StartRun(i) ==
    /\ tasks[i].pc = "scheduled"
    /\ store' = Update(store, tasks[i].request_id, ParsingFields)
    /\ tasks' = [tasks EXCEPT ![i].pc = "parse"]
    /\ UNCHANGED <<clock, policy_source, policy_cache, call>>

\* requirements["environment"] = environment when an override is given
override_environment(requirements, environment) ==
    IF environment # None /\ environment[1] # <<>>
        THEN [requirements EXCEPT !["environment"] = environment[1]]
        ELSE requirements

\* the parsing call ends: either it raised and the handler records the
\* failure, or the override is applied and status generating is written
ParseEnds(i, api_key, answer) ==
    /\ tasks[i].pc = "parse"
    /\ LET policies_result == load_policies(policy_cache, policy_source)
           result == parse_infrastructure_request(api_key, tasks[i].request_text,
                                                  policies_result, answer)
           shape == IF parse_receives(api_key, tasks[i].request_text, policies_result, answer)
                        THEN Some(response_shape(answer.raw)) ELSE None
           violations == validator_returned(api_key, tasks[i].request_text,
                                            policies_result, answer)
       IN  /\ policy_cache' =
                 IF parse_loads_policies(api_key, tasks[i].request_text)
                     THEN cache_after_load(policy_cache, policy_source)
                     ELSE policy_cache
           /\ IF Raised(result)
                  THEN /\ store' = Update(store, tasks[i].request_id,
                                          FailedFields(result.exc, clock))
                       /\ tasks' = [tasks EXCEPT ![i].pc = "done",
                                                 ![i].exc = Some(result.exc),
                                                 ![i].shape = shape,
                                                 ![i].violations = violations]
                  ELSE LET requirements ==
                               override_environment(result.ret, tasks[i].environment)
                       IN  /\ store' = Update(store, tasks[i].request_id,
                                              GeneratingFields(requirements))
                           /\ tasks' = [tasks EXCEPT ![i].pc = "generate",
                                                     ![i].requirements = Some(requirements),
                                                     ![i].shape = shape,
                                                     ![i].violations = violations,
                                                     ![i].parsed = Some(result.ret)]
    /\ UNCHANGED <<clock, policy_source, call>>

\* the generation call ends: failure recorded, or status creating_pr written
GenerateEnds(i, tree) ==
    /\ tasks[i].pc = "generate"
    /\ LET requirements == tasks[i].requirements[1]
           policies_result == load_policies(policy_cache, policy_source)
           result == generate(tree, requirements, policies_result, clock)
           rendered == IF renders(tree, requirements) THEN Some(requirements) ELSE None
       IN  /\ policy_cache' =
                 IF renders(tree, requirements)
                     THEN cache_after_load(policy_cache, policy_source)
                     ELSE policy_cache
           /\ IF Raised(result)
                  THEN /\ store' = Update(store, tasks[i].request_id,
                                          FailedFields(result.exc, clock))
                       /\ tasks' = [tasks EXCEPT ![i].pc = "done",
                                                 ![i].exc = Some(result.exc),
                                                 ![i].rendered = rendered]
                  ELSE /\ store' = Update(store, tasks[i].request_id, CreatingPrFields)
                       /\ tasks' = [tasks EXCEPT ![i].pc = "publish",
                                                 ![i].terraform = Some(result.ret),
                                                 ![i].rendered = rendered]
    /\ UNCHANGED <<clock, policy_source, call>>

\* the publication call ends: failure recorded, or the result and completed
PublishEnds(i, gh) ==
    /\ tasks[i].pc = "publish"
    /\ LET result == create_pr(gh, tasks[i].terraform[1], tasks[i].requirements[1], clock)
       IN  IF Raised(result)
               THEN /\ store' = Update(store, tasks[i].request_id,
                                       FailedFields(result.exc, clock))
                    /\ tasks' = [tasks EXCEPT ![i].pc = "done",
                                              ![i].exc = Some(result.exc),
                                              ![i].terraform = None]
               ELSE /\ store' = Update(store, tasks[i].request_id,
                                       CompletedFields(result.ret, clock))
                    /\ tasks' = [tasks EXCEPT ![i].pc = "done", ![i].terraform = None]
    /\ UNCHANGED <<clock, policy_source, policy_cache, call>>

\* a step of the i-th scheduled task
RunStep(i) ==
    /\ i \in 1..Len(tasks)
    /\ \/ StartRun(i)
       \/ \E api_key \in BOOLEAN, answer \in Answers : ParseEnds(i, api_key, answer)
       \/ \E tree \in TemplateTrees : GenerateEnds(i, tree)
       \/ \E gh \in GitHubScenarios : PublishEnds(i, gh)

----------------------------------------------------------------------------
(* The system *)

Init ==
    /\ store = [id \in {} |-> None]
    /\ tasks = <<>>
    /\ clock = 1
    /\ policy_source \in PolicySources
    /\ policy_cache = None
    /\ call = None

Next ==
    \/ \E payload \in Payloads : Submit(payload)
    \/ \E i \in 1..Len(tasks) : StartRun(i)
    \/ \E i \in 1..Len(tasks), api_key \in BOOLEAN, answer \in Answers :
           ParseEnds(i, api_key, answer)
    \/ \E i \in 1..Len(tasks), tree \in TemplateTrees : GenerateEnds(i, tree)
    \/ \E i \in 1..Len(tasks), gh \in GitHubScenarios : PublishEnds(i, gh)

Spec == Init /\ [][Next]_vars

\* a scheduled background task is run, and each of its calls returns or raises
FairSpec == Spec /\ \A i \in 1..MaxRequests : WF_vars(RunStep(i))

----------------------------------------------------------------------------
(* Properties of the request lifecycle *)

Record(i) == store[tasks[i].request_id]

Tasks == 1..Len(tasks)

TerminalStatuses == {COMPLETED, FAILED}

\* the status that follows a status on the way to completed
NextStatus(status) ==
    IF status = QUEUED THEN PARSING
    ELSE IF status = PARSING THEN GENERATING
    ELSE IF status = GENERATING THEN CREATING_PR
    ELSE COMPLETED

\* xs occur in ys, in the order of xs
RECURSIVE OccursInOrder(_, _)
OccursInOrder(xs, ys) ==
    IF xs = <<>> THEN TRUE
    ELSE IF ys = <<>> THEN FALSE
    ELSE IF Head(xs) = Head(ys) THEN OccursInOrder(Tail(xs), Tail(ys))
    ELSE OccursInOrder(xs, Tail(ys))

\* C1: every write to the status of a record moves it to the next status of
\* queued, parsing, generating, creating_pr, completed, or from a status that
\* is not terminal to failed; a terminal status is never changed.
C1_StatusOrder ==
    [][\A id \in DOMAIN store :
          \/ store'[id].status = store[id].status
          \/ /\ store[id].status \notin TerminalStatuses
             /\ store'[id].status \in {NextStatus(store[id].status), FAILED}]_vars

\* a run went through every status up to completed, another one failed
C1_Witness ==
    /\ \E i \in Tasks : tasks[i].pc = "done" /\ Record(i).status = COMPLETED
    /\ \E i \in Tasks : tasks[i].pc = "done" /\ Record(i).status = FAILED

\* C2: every run that has started eventually ends, and when it has ended the
\* status of its record is completed or failed.
C2_RunEndsTerminal ==
    \A i \in RequestIds :
        (i \in Tasks /\ tasks[i].pc # "scheduled")
            ~> (i \in Tasks /\ tasks[i].pc = "done"
                /\ Record(i).status \in TerminalStatuses)

\* a run ended in failed because its generation call raised
C2_Witness ==
    \E i \in Tasks :
        /\ tasks[i].pc = "done"
        /\ Record(i).status = FAILED
        /\ tasks[i].exc # None
        /\ IsInstance(tasks[i].exc[1], "TerraformGenerationError")

\* C3: when validate_request returned a list that is not empty, the run has
\* ended in failed, the error is of the policy-violation kind and holds every
\* violation of the list in the order of the list, nothing was rendered and
\* the record never got the requirements that are written with generating.
C3_ViolationsFail ==
    \A i \in Tasks :
        (tasks[i].violations # None /\ tasks[i].violations[1] # <<>>)
            => /\ tasks[i].pc = "done"
               /\ Record(i).status = FAILED
               /\ Head(Record(i).error[1]) = "Policy validation failed: "
               /\ OccursInOrder(tasks[i].violations[1], Tail(Record(i).error[1]))
               /\ tasks[i].rendered = None
               /\ Record(i).requirements = None

\* validate_request returned two violations and the run has ended
C3_Witness ==
    \E i \in Tasks :
        /\ tasks[i].violations # None
        /\ Len(tasks[i].violations[1]) >= 2
        /\ tasks[i].pc = "done"

\* C4: while the parsing call is in progress the status is parsing, while the
\* generation call is in progress it is generating, while the publication
\* call is in progress it is creating_pr.
C4_StatusBeforePhase ==
    \A i \in Tasks :
        /\ tasks[i].pc = "parse" => Record(i).status = PARSING
        /\ tasks[i].pc = "generate" => Record(i).status = GENERATING
        /\ tasks[i].pc = "publish" => Record(i).status = CREATING_PR

\* one run is in its publication call while another is in its parsing call
C4_Witness ==
    \E i, j \in Tasks : tasks[i].pc = "publish" /\ tasks[j].pc = "parse"

\* the ruleset the runs validate with
CurrentPolicies == policy_cache[1]

C6_RequirementsAsParsed ==
    \A i \in Tasks :
        Record(i).requirements # None => Record(i).requirements = tasks[i].parsed

TypedErrors ==
    {"llm.ConfigurationError", "ValidationError", "ParsingError",
     "TerraformGenerationError", "GitHubError"}

\* C7 (as claimed): a run that ended with an exception that is none of the
\* typed errors has recorded an error of the "Unexpected error" kind with the
\* message of the exception.
C7_UnexpectedErrorKind ==
    \A i \in Tasks :
        (tasks[i].pc = "done" /\ tasks[i].exc # None
         /\ \A cls \in TypedErrors : ~IsInstance(tasks[i].exc[1], cls))
            => Record(i).error = Some(<<"Unexpected error: ", tasks[i].exc[1].msg>>)

\* C8 (as claimed): a run that received a response that is no JSON object
\* matching the schema has ended in failed with an error of the parsing-error
\* kind.
C8_BadResponseIsParsingError ==
    \A i \in Tasks :
        (tasks[i].shape # None /\ tasks[i].shape[1] # "matches")
            => /\ Record(i).status = FAILED
               /\ Head(Record(i).error[1]) = "Failed to parse request: "

\* C9: in every record the publication result is set exactly when the status
\* is completed, the error exactly when it is failed, completed_at exactly
\* when it is completed or failed, and the requirements are not set while the
\* status is queued or parsing.
C9_RecordInvariant ==
    \A id \in DOMAIN store :
        /\ (store[id].pr_url # None) <=> (store[id].status = COMPLETED)
        /\ (store[id].pr_number # None) <=> (store[id].status = COMPLETED)
        /\ (store[id].branch_name # None) <=> (store[id].status = COMPLETED)
        /\ (store[id].error # None) <=> (store[id].status = FAILED)
        /\ (store[id].completed_at # None) <=> (store[id].status \in TerminalStatuses)
        /\ store[id].status \in {QUEUED, PARSING} => store[id].requirements = None

\* the store holds a completed record and a failed record whose run failed
\* after the requirements were recorded
C9_Witness ==
    /\ \E id \in DOMAIN store : store[id].status = COMPLETED
    /\ \E id \in DOMAIN store :
          store[id].status = FAILED /\ store[id].requirements # None

\* the number of scheduled tasks for request_id
RunsOf(ts, request_id) == Cardinality({i \in 1..Len(ts) : ts[i].request_id = request_id})

----------------------------------------------------------------------------
(* The Specification Validator called directly: validate_request on a      *)
(* validated InfrastructureRequest and a ruleset load_policies returned,    *)
(* twice in a row on the same two objects.                                 *)

\* no request, no task: the state of the API before any submit
Idle ==
    /\ store = [id \in {} |-> None]
    /\ tasks = <<>>
    /\ clock = 1
    /\ policy_cache = None

DB_PROD == <<"d", "b", "-", "p", "r", "o", "d">>

PROD_PAYMENTS_DB == <<"p", "r", "o", "d", "-", "p", "a", "y", "m", "e", "n", "t", "s", "-", "d", "b">>

PROD_DB == <<"p", "r", "o", "d", "-", "d", "b">>

PROD_HYPHENS == <<"p", "r", "o", "d", "-", "-">>

PROD_ONLY == <<"p", "r", "o", "d">>

ORACLE == <<"O", "r", "a", "c", "l", "e">>

POSTGRES_MIXED == <<"P", "o", "s", "t", "g", "r", "e", "s">>

\* GoodPolicies with a third required tag
ThreeTagPolicies ==
    [GoodPolicies EXCEPT !["tags"] = [required |-> PyList(<<"Environment", "Owner", "CostCenter">>)]]

\* a ruleset with no required tag and no resource section filled in
BarePolicies ==
    [GoodPolicies EXCEPT !["tags"] = [required |-> PyList(<<>>)],
                         !["resources"] = EmptyDict]

ValPolicies == {GoodPolicies, ThreeTagPolicies, BarePolicies}

ValNames ==
    {DB_PROD,
     PROD_PAYMENTS_DB,
     PROD_DB,
     PROD_HYPHENS,
     DevLogs,
     PROD_ONLY}

ValEnvironments == {DEV, PROD}

Blank == <<" ", " ">>

ValTags ==
    {AllTags,
     [Environment |-> Tag("x")],
     [Environment |-> Tag("x"), Owner |-> Blank],
     [Environment |-> <<>>, Owner |-> <<>>, CostCenter |-> Tag("x")],
     [Team |-> Tag("x")]}

ValResources ==
    {[resource_type |-> "s3", parameters |-> S3Params],
     [resource_type |-> "s3", parameters |-> [versioning |-> FALSE, encryption |-> "aws:kms"]],
     [resource_type |-> "rds",
      parameters |-> [engine |-> ORACLE, backup_retention_period |-> 3,
                      storage_encrypted |-> FALSE]],
     [resource_type |-> "rds",
      parameters |-> [engine |-> POSTGRES_MIXED, backup_retention_period |-> 7,
                      storage_encrypted |-> TRUE]],
     [resource_type |-> "eks",
      parameters |-> [node_groups |-> <<[desired_size |-> 1]>>, private_endpoint |-> FALSE]],
     [resource_type |-> "vpc", parameters |-> [cidr_block |-> "10.0.0.0/16"]]}

\* the mappings InfrastructureRequest is built from, with and without tags
ValData ==
    {[resource_type |-> r.resource_type, resource_name |-> n, parameters |-> r.parameters,
      environment |-> e, tags |-> t] :
        r \in ValResources, n \in ValNames, e \in ValEnvironments, t \in ValTags}
    \cup {[resource_type |-> r.resource_type, resource_name |-> n,
           parameters |-> r.parameters, environment |-> e] :
            r \in ValResources, n \in ValNames, e \in ValEnvironments}

\* the requests validate_request can be given: the models the schema accepts
ValRequests ==
    {InfrastructureRequest(data).ret : data \in {d \in ValData : ~Raised(InfrastructureRequest(d))}}

\* a validator that completes the tags of the request it is given
validate_request_patching(request, policies) ==
    [violations |-> validate_request(request, policies),
     request |-> [request EXCEPT !.tags = AllTags @@ request.tags],
     policies |-> policies]

\* one call validate_request(request, policies): what it returns and the two
\* objects after it; the body assigns to neither, nor to any module state
validate_request_call(request, policies) ==
    [violations |-> validate_request(request, policies),
     request |-> request,
     policies |-> policies]

ValidatorInit ==
    /\ Idle
    /\ policy_source = [t |-> "doc", v |-> GoodPolicies]
    /\ \E request \in ValRequests, policies \in ValPolicies :
          call = [given |-> [request |-> request, policies |-> policies],
                  request |-> request,
                  policies |-> policies,
                  returned |-> <<>>]

\* validate_request is called on the two objects as they are now
Validate ==
    /\ Len(call.returned) < 2
    /\ LET after == validate_request_call(call.request, call.policies)
       IN  call' = [call EXCEPT !.request = after.request,
                                !.policies = after.policies,
                                !.returned = Append(@, after.violations)]
    /\ UNCHANGED <<store, tasks, clock, policy_source, policy_cache>>

ValidatorNext == Validate

ValidatorSpec == ValidatorInit /\ [][ValidatorNext]_vars

----------------------------------------------------------------------------
(* Properties of the Specification Validator *)

\* the arguments of the direct call, as they were given
GivenRequest == call.given.request

GivenPolicies == call.given.policies

GivenRequiredTags == GivenPolicies["tags"]["required"].v

\* what each of the three checks returns for the given arguments
NamingPart ==
    validate_naming_pattern(GivenRequest.resource_name, GivenPolicies["naming"]["pattern"],
                            GivenRequest.environment, GivenRequest.resource_type)

TagPart == validate_required_tags(GivenRequest.tags, GivenRequiredTags)

ResourcePart ==
    IF GivenRequest.resource_type = "rds"
        THEN validate_rds_constraints(GivenRequest.parameters, GivenPolicies["resources"])
    ELSE IF GivenRequest.resource_type = "s3"
        THEN validate_s3_constraints(GivenRequest.parameters, GivenPolicies["resources"])
    ELSE IF GivenRequest.resource_type = "eks"
        THEN validate_eks_constraints(GivenRequest.parameters, GivenPolicies["resources"])
    ELSE <<>>

Returned == 1..Len(call.returned)

\* C11: what validate_request returns is the naming violation (if any), then
\* the violations of the tag check, then the violations of the check of the
\* resource type, each check being evaluated whatever the others found.
C11_AllChecksAccumulated ==
    \A k \in Returned : call.returned[k] = NamingPart \o TagPart \o ResourcePart

\* a call returned violations of all three checks
C11_Witness ==
    /\ Returned # {}
    /\ NamingPart # None /\ Len(TagPart) >= 2 /\ Len(ResourcePart) >= 2
    /\ Len(call.returned[1]) >= 5

\* a character sequence with nothing but whitespace in it
IsBlank(v) == \A i \in 1..Len(v) : v[i] \in Whitespace

\* the positions of the ruleset's required tags that the request lacks or
\* has with an empty or whitespace-only value
MissingTags ==
    {i \in 1..Len(GivenRequiredTags) :
        \/ GivenRequiredTags[i] \notin DOMAIN GivenRequest.tags
        \/ IsBlank(GivenRequest.tags[GivenRequiredTags[i]])}

\* C12 (as claimed): when a required tag is missing, the length of what
\* validate_request returns is the number of missing or empty required tags.
C12_LengthIsMissingTags ==
    \A k \in Returned :
        MissingTags # {} => Len(call.returned[k]) = Cardinality(MissingTags)

\* C12 (amended): of what validate_request returns, the part between the
\* naming violation and the violations of the resource check has one
\* violation for each missing or empty required tag, naming that tag.
C12_OneViolationPerMissingTag ==
    \A k \in Returned :
        LET result == call.returned[k]
            first == Len(NamingPart) + 1
            last == Len(result) - Len(ResourcePart)
        IN  /\ last - first + 1 = Cardinality(MissingTags)
            /\ \A i \in MissingTags :
                  \E j \in first..last :
                      result[j] \in {"Missing required tag: " \o GivenRequiredTags[i],
                                     "Required tag '" \o GivenRequiredTags[i]
                                        \o "' cannot be empty"}

\* a call for a request that lacks two required tags and has a naming
\* violation returned
C12_Witness ==
    /\ Returned # {}
    /\ Cardinality(MissingTags) >= 2
    /\ NamingPart # None
    /\ Len(call.returned[1]) > Cardinality(MissingTags)

\* the number of hyphens of a name
HyphenCount(name) == Cardinality({i \in 1..Len(name) : name[i] = "-"})

\* the name begins with the environment and a hyphen and has three segments
NamingOk(name, environment) ==
    /\ Len(name) > Len(environment)
    /\ \A i \in 1..Len(environment) : name[i] = environment[i]
    /\ name[Len(environment) + 1] = "-"
    /\ HyphenCount(name) + 1 >= 3

RdsParams ==
    [engine |-> POSTGRES, engine_version |-> "15", instance_class |-> "db.t3.micro",
     allocated_storage |-> 20, backup_retention_period |-> 7, storage_encrypted |-> TRUE]

NodeGroup ==
    [name |-> "workers", instance_types |-> PyList(<<"t3.medium">>),
     desired_size |-> 2, min_size |-> 1, max_size |-> 3]

EksParams ==
    [kubernetes_version |-> "1.29", node_groups |-> <<NodeGroup>>, private_endpoint |-> TRUE]

VpcParams ==
    [cidr_block |-> "10.0.0.0/16", enable_dns_hostnames |-> TRUE, enable_dns_support |-> TRUE]

\* the parameters generate is called with: for each type one set that passes
\* every check, then sets a check rejects
GenResources ==
    {[resource_type |-> "s3", parameters |-> S3Params],
     [resource_type |-> "eks", parameters |-> EksParams],
     [resource_type |-> "rds", parameters |-> RdsParams],
     [resource_type |-> "vpc", parameters |-> VpcParams],
     [resource_type |-> "s3", parameters |-> [versioning |-> FALSE, encryption |-> "AES256",
                                               public_access_block |-> TRUE]],
     [resource_type |-> "s3", parameters |-> [versioning |-> TRUE, encryption |-> "AES256"]],
     [resource_type |-> "s3", parameters |-> [S3Params EXCEPT !.encryption = "DES"]],
     [resource_type |-> "eks",
      parameters |-> [EksParams EXCEPT !.node_groups = <<[NodeGroup EXCEPT !.desired_size = 4]>>]],
     [resource_type |-> "eks", parameters |-> [EksParams EXCEPT !.node_groups = <<>>]],
     [resource_type |-> "rds",
      parameters |-> [engine |-> POSTGRES, backup_retention_period |-> 7,
                      storage_encrypted |-> TRUE]],
     [resource_type |-> "vpc", parameters |-> [enable_dns_hostnames |-> TRUE]],
     [resource_type |-> "lambda", parameters |-> EmptyDict]}

GenNames == {<<DevLogs, DEV>>, <<PROD_PAYMENTS_DB, PROD>>}

Without(d, k) == [f \in DOMAIN d \ {k} |-> d[f]]

GenComplete ==
    {[resource_type |-> r.resource_type, resource_name |-> n[1], parameters |-> r.parameters,
      environment |-> n[2], tags |-> AllTags] : r \in GenResources, n \in GenNames}

\* the dictionaries generate is called with: model_dump of a request, a
\* dictionary a caller built by hand, one with a field left out
GenRequirements ==
    GenComplete
    \cup {Without(ValidS3, RequiredFields[i]) : i \in 1..Len(RequiredFields)}

GenTrees ==
    {RepositoryTree,
     [exists |-> FALSE],
     [RepositoryTree EXCEPT
         !.files = AllTemplatePaths \ {TemplatePath(SupportedTypes[i], "main.tf") :
                                          i \in 1..Len(SupportedTypes)}],
     [RepositoryTree EXCEPT !.files = AllTemplatePaths \ {TemplatePath("_common", "backend.tf")}],
     [RepositoryTree EXCEPT !.broken = (TemplatePath("_common", "provider.tf") :> "TemplateError")],
     [RepositoryTree EXCEPT !.broken = (TemplatePath("_common", "backend.tf") :> "KeyError")]}

GeneratorInit ==
    /\ Idle
    /\ policy_source = [t |-> "doc", v |-> GoodPolicies]
    /\ call \in [tree : GenTrees, requirements : GenRequirements, returned : {None}]

\* TerraformGenerator(templates_dir).generate(requirements) runs to its end;
\* _prepare_context, when reached, loads the policies
Generate ==
    /\ call.returned = None
    /\ call' = [call EXCEPT !.returned =
                    Some(generate(call.tree, call.requirements,
                                  load_policies(policy_cache, policy_source), clock))]
    /\ policy_cache' = IF renders(call.tree, call.requirements)
                           THEN cache_after_load(policy_cache, policy_source)
                           ELSE policy_cache
    /\ UNCHANGED <<store, tasks, clock, policy_source>>

GeneratorNext == Generate

GeneratorSpec == GeneratorInit /\ [][GeneratorNext]_vars

(***************************************************************************)
(* Properties of generate                                                  *)
(***************************************************************************)

\* the requirements are the dump of a request the schema accepts and the
\* Specification Validator and the Parameter Validator find nothing in
PassesBothValidators(requirements) ==
    /\ DOMAIN requirements = {RequiredFields[i] : i \in 1..Len(RequiredFields)}
    /\ ~Raised(InfrastructureRequest(requirements))
    /\ validate_request(InfrastructureRequest(requirements).ret, GoodPolicies) = <<>>
    /\ validation_func(requirements["resource_type"], requirements["parameters"]) = <<>>

FileNames(result) == [i \in 1..Len(result.ret.files) |-> result.ret.files[i][1]]

FiveFiles == <<"main.tf", "variables.tf", "outputs.tf", "provider.tf", "backend.tf">>

FieldAbsent(requirements) ==
    \E i \in 1..Len(RequiredFields) : RequiredFields[i] \notin DOMAIN requirements

Unsupported(requirements) ==
    /\ "resource_type" \in DOMAIN requirements
    /\ requirements["resource_type"] \notin {"s3", "eks", "rds", "vpc"}

ParameterErrors(requirements) ==
    /\ {"resource_type", "parameters"} \subseteq DOMAIN requirements
    /\ requirements["resource_type"] \in {"s3", "eks", "rds", "vpc"}
    /\ validation_func(requirements["resource_type"], requirements["parameters"]) # <<>>

TemplatesOf(requirements) ==
    {TemplatePath(requirements["resource_type"], f) : f \in {"main.tf", "variables.tf", "outputs.tf"}}
    \cup {TemplatePath("_common", f) : f \in {"provider.tf", "backend.tf"}}

TemplateMissing(tree, requirements) ==
    /\ "resource_type" \in DOMAIN requirements
    /\ requirements["resource_type"] \in {"s3", "eks", "rds", "vpc"}
    /\ tree.exists
    /\ ~(TemplatesOf(requirements) \subseteq tree.files)

RenderingRaises(tree, requirements) ==
    /\ "resource_type" \in DOMAIN requirements
    /\ requirements["resource_type"] \in {"s3", "eks", "rds", "vpc"}
    /\ tree.exists
    /\ TemplatesOf(requirements) \cap DOMAIN tree.broken # {}

\* C16: when a required field is absent, the resource type is not supported,
\* the parameter check returns an error, a template of the resource type or
\* of the shared set is missing, or the rendering of a template raises,
\* generate raises a TerraformGenerationError and returns nothing
C16_GenerationError ==
    (/\ "tree" \in DOMAIN call
     /\ call.returned # None
     /\ \/ FieldAbsent(call.requirements)
        \/ Unsupported(call.requirements)
        \/ ParameterErrors(call.requirements)
        \/ TemplateMissing(call.tree, call.requirements)
        \/ RenderingRaises(call.tree, call.requirements))
    => /\ Raised(call.returned[1])
       /\ call.returned[1].exc.cls = "TerraformGenerationError"
       /\ "ret" \notin DOMAIN call.returned[1]

C16_Witness ==
    /\ "tree" \in DOMAIN call
    /\ call.returned # None
    /\ PassesBothValidators(call.requirements)
    /\ RenderingRaises(call.tree, call.requirements)
    /\ Get(call.tree.broken, TemplatePath("_common", "backend.tf"), "") = "KeyError"
    /\ call.returned[1].exc.cls = "TerraformGenerationError"

(***************************************************************************)
(* The Policy Store on its own: policies.yaml is edited on disk,           *)
(* load_policies and reload_policies are called, and one run of            *)
(* parse_infrastructure_request loads the ruleset and later hands it to    *)
(* the checks of validate_request.                                         *)
(* call = [last |-> None or Some of the last call of the store: its op,    *)
(*                  the source and the cache it found and its result,      *)
(*         reloaded |-> None or Some(the ruleset the last reload_policies  *)
(*                  returned),                                             *)
(*         inflight |-> None or Some of the validation under way: the      *)
(*                  ruleset it loaded and the ruleset each check used]     *)
(***************************************************************************)

\* GoodPolicies with one section replaced
WithSection(section, value) == [GoodPolicies EXCEPT ![section] = value]

\* what policies.yaml can hold
LoadSources ==
    {[t |-> "absent"], [t |-> "unparsable"], [t |-> "scalar"],
     [t |-> "doc", v |-> GoodPolicies],
     [t |-> "doc", v |-> ThreeTagPolicies],
     [t |-> "doc", v |-> NoSecurityPolicies],
     [t |-> "doc", v |-> WithSection("naming", [separator |-> "-"])],
     [t |-> "doc", v |-> WithSection("naming", YamlNull)],
     [t |-> "doc", v |-> WithSection("naming", PyStr(PATTERN_KEY))],
     [t |-> "doc", v |-> WithSection("tags", [optional |-> PyList(<<>>)])],
     [t |-> "doc", v |-> WithSection("tags", [required |-> PyStr(<<"O", "w", "n", "e", "r">>)])],
     [t |-> "doc", v |-> WithSection("tags", PyStr(REQUIRED_KEY))]}

PolicyInit ==
    /\ Idle
    /\ policy_source \in LoadSources
    /\ call = [last |-> None, reloaded |-> None, inflight |-> None]

\* policies.yaml is rewritten on disk
EditSource ==
    /\ \E source \in LoadSources \ {policy_source} : policy_source' = source
    /\ UNCHANGED <<store, tasks, clock, policy_cache, call>>

\* load_policies()
Load ==
    /\ call' = [call EXCEPT !.last = Some([op |-> "load", source |-> policy_source,
                                           cache |-> policy_cache,
                                           result |-> load_policies(policy_cache, policy_source)])]
    /\ policy_cache' = cache_after_load(policy_cache, policy_source)
    /\ UNCHANGED <<store, tasks, clock, policy_source>>

\* a reload that leaves the cache as it is
cache_clear_skipped(cache) == cache

\* load_policies.cache_clear()
cache_clear(cache) == None

\* reload_policies(): cache_clear, then load_policies(); cleared is the
\* cache the call found, cache the one its load_policies found
Reload ==
    LET cache == cache_clear(policy_cache)
    IN  /\ call' = [call EXCEPT
                       !.last = Some([op |-> "reload", source |-> policy_source,
                                      cleared |-> policy_cache, cache |-> cache,
                                      result |-> load_policies(cache, policy_source)]),
                       !.reloaded = IF Raised(load_policies(cache, policy_source)) THEN None
                                    ELSE Some(load_policies(cache, policy_source).ret)]
        /\ policy_cache' = cache_after_load(cache, policy_source)
        /\ UNCHANGED <<store, tasks, clock, policy_source>>

\* step 2 of parse_infrastructure_request: the ruleset is loaded and kept in
\* the local policies; a ConfigurationError ends the run
BeginValidation ==
    /\ IF call.inflight = None THEN TRUE ELSE Len(call.inflight[1].used) = 3
    /\ call' = [call EXCEPT
                   !.last = Some([op |-> "load", source |-> policy_source,
                                  cache |-> policy_cache,
                                  result |-> load_policies(policy_cache, policy_source)]),
                   !.inflight = IF Raised(load_policies(policy_cache, policy_source)) THEN None
                                ELSE Some([policies |-> load_policies(policy_cache,
                                                                      policy_source).ret,
                                           used |-> <<>>])]
    /\ policy_cache' = cache_after_load(policy_cache, policy_source)
    /\ UNCHANGED <<store, tasks, clock, policy_source>>

\* the ruleset a check of validate_request reads: the argument that step 7 of
\* parse_infrastructure_request passes, the local policies
ruleset_of_check(policies, cache, source) == policies

\* the next of the three checks of validate_request (naming, tags, resource)
Check ==
    /\ call.inflight # None
    /\ Len(call.inflight[1].used) < 3
    /\ call' = [call EXCEPT !.inflight =
                   Some([call.inflight[1] EXCEPT !.used =
                            Append(@, ruleset_of_check(call.inflight[1].policies,
                                                       policy_cache, policy_source))])]
    /\ UNCHANGED <<store, tasks, clock, policy_source, policy_cache>>

PolicyNext ==
    \/ EditSource
    \/ Load
    \/ Reload
    \/ BeginValidation
    \/ Check

PolicySpec == PolicyInit /\ [][PolicyNext]_vars

(***************************************************************************)
(* Properties of the Policy Store                                          *)
(***************************************************************************)

\* the ruleset has the four sections, naming.pattern and a list tags.required
CompleteRuleset(policies) ==
    /\ {"naming", "tags", "security", "resources"} \subseteq DOMAIN policies
    /\ IsMapping(policies["naming"])
    /\ "pattern" \in DOMAIN policies["naming"]
    /\ IsMapping(policies["tags"])
    /\ "required" \in DOMAIN policies["tags"]
    /\ policies["tags"]["required"].t = "list"

\* the source is absent, unparsable, no mapping, or lacks something required
DefectiveSource(source) == source.t # "doc" \/ ~CompleteRuleset(source.v)

\* C17: a call of load_policies that reads a source that is absent,
\* unparsable, no mapping or lacks a required section, naming.pattern or a
\* list tags.required raises ConfigurationError; every ruleset returned, and
\* every ruleset in the cache, has all of them
C17_LoadRejectsDefective ==
    /\ (call.last # None /\ call.last[1].cache = None)
       => /\ DefectiveSource(call.last[1].source)
             => /\ Raised(call.last[1].result)
                /\ call.last[1].result.exc.cls = "llm.ConfigurationError"
          /\ ~Raised(call.last[1].result) => CompleteRuleset(call.last[1].result.ret)
    /\ policy_cache # None => CompleteRuleset(policy_cache[1])

\* C18: a load that finds a cached ruleset returns it whatever the source
\* holds now; while the last reload_policies succeeded, every load returns
\* the ruleset it returned; every check of a validation under way reads the
\* ruleset the validation loaded
C18_CachedUntilReload ==
    /\ (call.last # None /\ call.last[1].op = "load" /\ call.last[1].cache # None)
       => call.last[1].result = Return(call.last[1].cache[1])
    /\ (call.last # None /\ call.last[1].op = "load" /\ call.reloaded # None)
       => call.last[1].result = Return(call.reloaded[1])
    /\ call.inflight # None
       => \A i \in 1..Len(call.inflight[1].used) :
              call.inflight[1].used[i] = call.inflight[1].policies

\* the source was edited after a reload, a load still returned the reloaded
\* ruleset, and a validation that began before the reload finished on the old
C18_Witness ==
    /\ call.last # None
    /\ call.last[1].op = "load"
    /\ call.reloaded = Some(ThreeTagPolicies)
    /\ call.last[1].source = [t |-> "absent"]
    /\ call.last[1].result = Return(ThreeTagPolicies)
    /\ call.inflight # None
    /\ call.inflight[1].policies = GoodPolicies
    /\ Len(call.inflight[1].used) = 3

(***************************************************************************)
(* Publication with its formatter: src/git/github.py                       *)
(* The formatter is the terraform binary as create_pr finds it:            *)
(* [version |-> how `terraform version` ends, write |-> how writing the    *)
(* files to the temporary directory ends, fmt |-> how `terraform fmt`      *)
(* ends, rewritten |-> the files fmt rewrote in place before it ended,     *)
(* kept |-> the files still in the directory when they are read back].     *)
(* call = [gh, formatter, terraform, committed |-> None or Some(the files  *)
(* handed to _commit_files), returned |-> None or Some(result)].           *)
(***************************************************************************)

\* terraform fmt on one file: the canonical layout of its content
terraform_fmt(content) ==
    IF "layout" \in DOMAIN content THEN content
    ELSE [layout |-> "canonical", of |-> content]

EndsWithTf(filename) ==
    \E stem \in {"main", "variables", "outputs", "provider", "backend"} :
        filename = stem \o ".tf"

\* _format_terraform_files(files): the formatted files or the exception
format_terraform_files(fm, files) ==
    IF fm.version \in {"nonzero", "TimeoutExpired", "FileNotFoundError"} THEN Return(files)
    ELSE IF fm.version # "ok" THEN Raise(Exc(fm.version, "terraform version"))
    ELSE IF fm.write # "ok" THEN Raise(Exc(fm.write, "write_text"))
    ELSE IF fm.fmt = "TimeoutExpired" THEN Return(files)
    ELSE IF fm.fmt \notin {"ok", "nonzero"} THEN Raise(Exc(fm.fmt, "terraform fmt"))
    ELSE Return([i \in 1..Len(files) |->
                    IF EndsWithTf(files[i][1]) /\ files[i][1] \in fm.kept
                           /\ files[i][1] \in fm.rewritten
                        THEN <<files[i][1], terraform_fmt(files[i][2])>>
                        ELSE files[i]])

\* step 4.5 of create_pr: terraform.files after it
format_step(fm, files) ==
    IF Raised(format_terraform_files(fm, files)) THEN files
    ELSE format_terraform_files(fm, files).ret

\* create_pr gets as far as step 4.5
reaches_format(gh) ==
    /\ gh.configured
    /\ gh.get_repo = "ok"
    /\ gh.get_git_ref = "ok"
    /\ gh.create_git_ref = "ok"

GeneratedFileNames == {FiveFiles[i] : i \in 1..Len(FiveFiles)}

TerraformOk ==
    [version |-> "ok", write |-> "ok", fmt |-> "ok", rewritten |-> GeneratedFileNames,
     kept |-> GeneratedFileNames]

Formatters ==
    {TerraformOk}
    \cup {[TerraformOk EXCEPT !.version = v, !.rewritten = {}] :
             v \in {"nonzero", "TimeoutExpired", "FileNotFoundError", "PermissionError"}}
    \cup {[TerraformOk EXCEPT !.write = "OSError", !.rewritten = {}]}
    \cup {[TerraformOk EXCEPT !.fmt = f, !.rewritten = r] :
             f \in {"nonzero", "TimeoutExpired", "FileNotFoundError"},
             r \in {{}, {"main.tf"}, {"main.tf", "variables.tf", "outputs.tf", "provider.tf"}}}
    \cup {[TerraformOk EXCEPT !.kept = GeneratedFileNames \ {"backend.tf"}]}

PublishScenarios ==
    {GitHubOk,
     [GitHubOk EXCEPT !.create_git_ref = "422"],
     [GitHubOk EXCEPT !.commit = "409"],
     [GitHubOk EXCEPT !.create_pull = "422"],
     [GitHubOk EXCEPT !.get_repo = "404"],
     [GitHubOk EXCEPT !.get_repo = "500"],
     [GitHubOk EXCEPT !.get_git_ref = "404"],
     [GitHubOk EXCEPT !.get_git_ref = "500"]}

\* the artifacts handed to create_pr: what generate returns
Artifacts ==
    {generate(RepositoryTree, r, Return(GoodPolicies), 1).ret :
        r \in {r \in GenComplete : PassesBothValidators(r)}}

FormatInit ==
    /\ Idle
    /\ policy_source = [t |-> "doc", v |-> GoodPolicies]
    /\ call \in [gh : PublishScenarios, formatter : Formatters, terraform : Artifacts,
                 committed : {None}, returned : {None}]

\* GitHubClient().create_pr(terraform, requirements) runs to its end
Publish ==
    /\ call.returned = None
    /\ call' = [call EXCEPT
                   !.committed = IF reaches_format(call.gh)
                                     THEN Some(format_step(call.formatter, call.terraform.files))
                                     ELSE None,
                   !.returned = Some(create_pr(call.gh, call.terraform, EmptyDict, clock))]
    /\ UNCHANGED <<store, tasks, clock, policy_source, policy_cache>>

FormatNext == Publish

FormatSpec == FormatInit /\ [][FormatNext]_vars

(***************************************************************************)
(* Properties of the formatter step                                        *)
(***************************************************************************)

NamesOf(files) == [i \in 1..Len(files) |-> files[i][1]]

FormattingSucceeded(fm) == fm.version = "ok" /\ fm.write = "ok" /\ fm.fmt = "ok"

\* C19: whatever the formatter does, a create_pr that created its branch
\* hands to the commit step files with the filenames of the artifact, the
\* unformatted contents unless formatting succeeded, and ends as it would
\* with a working formatter
C19_FormatterNeverBlocks ==
    ("formatter" \in DOMAIN call /\ call.returned # None /\ reaches_format(call.gh))
    => /\ call.committed # None
       /\ NamesOf(call.committed[1]) = NamesOf(call.terraform.files)
       /\ ~FormattingSucceeded(call.formatter) => call.committed[1] = call.terraform.files
       /\ Raised(call.returned[1])
          => call.returned[1].exc.cls \in {"CommitError", "PullRequestError"}

(***************************************************************************)
(* Dry run: POST /api/v1/dry-run of infrallm_api/main.py, beside the       *)
(* submissions and the runs that fill the store.                           *)
(* call = None or Some([response |-> what the handler returns or the       *)
(* HTTPException it raises, invoked |-> the collaborators it constructed   *)
(* and called, in order]).                                                 *)
(***************************************************************************)

HTTPException(status_code, detail) ==
    [cls |-> "HTTPException", status_code |-> status_code, detail |-> detail]

\* "; ".join(violations)
RECURSIVE JoinViolations(_)
JoinViolations(violations) ==
    IF violations = <<>> THEN ""
    ELSE IF Len(violations) = 1 THEN violations[1]
    ELSE violations[1] \o "; " \o JoinViolations(Tail(violations))

\* the except clauses of dry_run, top down
dry_run_handler(e) ==
    IF IsInstance(e, "llm.ConfigurationError")
        THEN HTTPException(500, "Configuration error: " \o e.msg)
    ELSE IF IsInstance(e, "ValidationError")
        THEN HTTPException(400, "Policy validation failed: " \o JoinViolations(e.violations))
    ELSE IF IsInstance(e, "ParsingError")
        THEN HTTPException(400, "Failed to parse request: " \o e.msg)
    ELSE IF IsInstance(e, "TerraformGenerationError")
        THEN HTTPException(500, "Failed to generate Terraform: " \o e.msg)
    ELSE IF IsInstance(e, "APIError")
        THEN HTTPException(502, "External API error: " \o e.msg)
    ELSE HTTPException(500, "Unexpected error: " \o e.msg)

\* a dry run that goes on to publish what it generated
DryRunCollaboratorsPublishing == <<"ClaudeClient", "TerraformGenerator", "GitHubClient">>

\* the collaborators dry_run constructs and calls, in order
DryRunCollaborators == <<"ClaudeClient", "TerraformGenerator">>

\* GeneratedTerraform.get_directory_name
get_directory_name(terraform) ==
    "terraform/" \o Str(terraform.environment) \o "/" \o terraform.resource_type
    \o "/" \o Str(terraform.resource_name)

\* dry_run(request): parse, then generate, then the response
dry_run(request, api_key, answer, tree, cache, source, now) ==
    LET requirements ==
            parse_infrastructure_request(api_key, request, load_policies(cache, source), answer)
        cache_then == IF parse_loads_policies(api_key, request)
                          THEN cache_after_load(cache, source) ELSE cache
        terraform == generate(tree, requirements.ret, load_policies(cache_then, source), now)
    IN  IF Raised(requirements)
            THEN [response |-> Raise(dry_run_handler(requirements.exc)),
                  invoked |-> SubSeq(DryRunCollaborators, 1, 1)]
        ELSE IF Raised(terraform)
            THEN [response |-> Raise(dry_run_handler(terraform.exc)),
                  invoked |-> SubSeq(DryRunCollaborators, 1, 2)]
        ELSE [response |-> Return([parsed_requirements |-> requirements.ret,
                                   terraform_files |-> terraform.ret.files,
                                   directory |-> get_directory_name(terraform.ret)]),
              invoked |-> DryRunCollaborators]

\* the policy cache after dry_run
cache_after_dry_run(request, api_key, answer, tree, cache, source) ==
    LET requirements ==
            parse_infrastructure_request(api_key, request, load_policies(cache, source), answer)
        cache_then == IF parse_loads_policies(api_key, request)
                          THEN cache_after_load(cache, source) ELSE cache
    IN  IF ~Raised(requirements) /\ renders(tree, requirements.ret)
            THEN cache_after_load(cache_then, source)
            ELSE cache_then

DryRunTexts == {<<"d", "b">>, <<" ">>}

\* POST /api/v1/dry-run
DryRun(request, api_key, answer, tree) ==
    /\ call' = Some(dry_run(request, api_key, answer, tree, policy_cache, policy_source, clock))
    /\ policy_cache' = cache_after_dry_run(request, api_key, answer, tree,
                                           policy_cache, policy_source)
    /\ UNCHANGED <<store, tasks, clock, policy_source>>

DryRunNext ==
    \/ \E payload \in Payloads : Submit(payload)
    \/ \E i \in 1..Len(tasks) : StartRun(i)
    \/ \E request \in DryRunTexts, api_key \in BOOLEAN, answer \in Answers,
          tree \in TemplateTrees :
           DryRun(request, api_key, answer, tree)

DryRunSpec == Init /\ [][DryRunNext]_vars

(***************************************************************************)
(* Properties of the dry run                                               *)
(***************************************************************************)

\* C20: a dry run leaves every request record and every scheduled run as it
\* was and does not call the GitHub client, whether it succeeds or fails;
\* when it succeeds it returns the specification the parsing returned and
\* the five files generated from that specification
C20_DryRunFrame ==
    [][call' # call
       => /\ store' = store
          /\ tasks' = tasks
          /\ \A i \in 1..Len(call'[1].invoked) : call'[1].invoked[i] # "GitHubClient"
          /\ ~Raised(call'[1].response)
             => LET body == call'[1].response.ret
                IN  /\ ~Raised(InfrastructureRequest(body.parsed_requirements))
                    /\ NamesOf(body.terraform_files) = FiveFiles
                    /\ \A i \in 1..Len(body.terraform_files) :
                           /\ body.terraform_files[i][2].resource_name
                              = Str(body.parsed_requirements["resource_name"])
                           /\ body.terraform_files[i][2].environment
                              = Str(body.parsed_requirements["environment"])]_vars

\* a dry run succeeded while the store held a request under way
C20_Witness ==
    /\ call # None
    /\ ~Raised(call[1].response)
    /\ Len(call[1].response.ret.terraform_files) = 5
    /\ \E id \in DOMAIN store : store[id].status = PARSING

(***************************************************************************)
(* Listing: RequestStore.list_by_user behind GET /api/v1/requests, beside  *)
(* the submissions that fill the store.  Two submissions can read the same *)
(* instant from datetime.utcnow().                                         *)
(* call = None or Some([requester, limit, returned |-> the list]).         *)
(***************************************************************************)

MaxListed == 3

ListIds == 1..MaxListed

\* the values of the store in the order of their insertion: request ids are
\* handed out in increasing order and no entry is ever removed
RECURSIVE StoreValues(_, _)
StoreValues(st, id) ==
    IF id > MaxListed THEN <<>>
    ELSE (IF id \in DOMAIN st THEN <<st[id]>> ELSE <<>>) \o StoreValues(st, id + 1)

\* list.sort(key=created_at, reverse=True) is stable: req goes behind every
\* element whose created_at is not smaller
RECURSIVE InsertByCreatedAt(_, _)
InsertByCreatedAt(sorted, req) ==
    IF sorted = <<>> THEN <<req>>
    ELSE IF Head(sorted).created_at >= req.created_at
        THEN <<Head(sorted)>> \o InsertByCreatedAt(Tail(sorted), req)
    ELSE <<req>> \o sorted

RECURSIVE SortByCreatedAt(_)
SortByCreatedAt(reqs) ==
    IF reqs = <<>> THEN <<>>
    ELSE InsertByCreatedAt(SortByCreatedAt(SubSeq(reqs, 1, Len(reqs) - 1)), reqs[Len(reqs)])

\* a listing that leaves the requests in the order of their insertion
list_by_user_unsorted(st, requester, limit) ==
    LET user_requests == SelectSeq(StoreValues(st, 1), LAMBDA req : req.requester = requester)
    IN  SubSeq(user_requests, 1, IF limit < Len(user_requests) THEN limit
                                 ELSE Len(user_requests))

\* RequestStore.list_by_user(requester, limit), for the limits the endpoint
\* lets through (1 and more)
list_by_user(st, requester, limit) ==
    LET user_requests ==
            SortByCreatedAt(SelectSeq(StoreValues(st, 1), LAMBDA req : req.requester = requester))
    IN  SubSeq(user_requests, 1, IF limit < Len(user_requests) THEN limit
                                 ELSE Len(user_requests))

ListInit ==
    /\ Idle
    /\ policy_source = [t |-> "doc", v |-> GoodPolicies]
    /\ call = None

\* POST /api/v1/provision as the store sees it: create, at the instant
\* datetime.utcnow() returns, which is the one of the last call or a later one
ListCreate(payload, later) ==
    /\ DOMAIN store # ListIds
    /\ LET request_id == CHOOSE id \in ListIds \ DOMAIN store :
                             \A other \in ListIds \ DOMAIN store : id <= other
           now == IF later THEN clock + 1 ELSE clock
       IN  /\ store' = Create(store, request_id, payload.request, payload.requester,
                              payload.team, payload.service, now)
           /\ clock' = now
    /\ UNCHANGED <<tasks, policy_source, policy_cache, call>>

ListUsers == {ALICE, BOB, "carol@company.com"}

\* GET /api/v1/requests?user=..&limit=..
ListRequests(user, limit) ==
    /\ call' = Some([requester |-> user, limit |-> limit,
                     returned |-> list_by_user(store, user, limit)])
    /\ UNCHANGED <<store, tasks, clock, policy_source, policy_cache>>

ListNext ==
    \/ \E payload \in Payloads, later \in BOOLEAN : ListCreate(payload, later)
    \/ \E user \in ListUsers, limit \in ListIds : ListRequests(user, limit)

ListSpec == ListInit /\ [][ListNext]_vars

(***************************************************************************)
(* Properties of the listing                                               *)
(***************************************************************************)

RecordsOf(st, requester) == {id \in DOMAIN st : st[id].requester = requester}

\* C21: a listing returns records of the store whose requester is the given
\* one, each once, at most limit of them and all of them when there are no
\* more than limit, from the newest created_at to the oldest, no record left
\* out being newer than a returned one; and it leaves the store as it was
C21_ListByUser ==
    [][call' # call
       => LET requester == call'[1].requester
              limit == call'[1].limit
              returned == call'[1].returned
              ids == {returned[i].request_id : i \in 1..Len(returned)}
          IN  /\ store' = store
              /\ \A i \in 1..Len(returned) :
                     /\ returned[i].request_id \in RecordsOf(store, requester)
                     /\ returned[i] = store[returned[i].request_id]
              /\ Cardinality(ids) = Len(returned)
              /\ Len(returned) <= limit
              /\ Len(returned) < limit => ids = RecordsOf(store, requester)
              /\ \A i, j \in 1..Len(returned) :
                     i < j => returned[i].created_at >= returned[j].created_at
              /\ \A id \in RecordsOf(store, requester) \ ids :
                     \A i \in 1..Len(returned) :
                         store[id].created_at <= returned[i].created_at]_vars

\* a listing with limit 2 returned the two newest of three requests of one
\* requester, the newer first
C21_Witness ==
    /\ call # None
    /\ call[1].limit = 2
    /\ Len(call[1].returned) = 2
    /\ Cardinality(RecordsOf(store, call[1].requester)) = 3
    /\ call[1].returned[1].created_at > call[1].returned[2].created_at
    /\ \E id \in DOMAIN store : store[id].created_at < call[1].returned[2].created_at

(***************************************************************************)
(* The two validators on parameter maps of any content.  A parameters map  *)
(* of a request that passed the schema is [values |-> the keys that hold a *)
(* value, nulls |-> the keys that hold None (JSON null)].                  *)
(* call = [request, nulls, policies, violations |-> None or Some(what      *)
(* validate_request returns or raises), errors |-> None or Some(what the   *)
(* parameter check of the resource type returns or raises)].               *)
(***************************************************************************)

\* validate_rds_constraints on a map with None values: .lower() of None and
\* None < min_backup_days raise; a None storage_encrypted is falsy
rds_constraints_of(values, nulls, policies) ==
    IF "engine" \in nulls
        THEN Raise(Exc("AttributeError", "'NoneType' object has no attribute 'lower'"))
    ELSE IF "backup_retention_period" \in nulls
        THEN Raise(Exc("TypeError",
                       "'<' not supported between instances of 'NoneType' and 'int'"))
    ELSE Return(validate_rds_constraints(values, policies))

\* validate_s3_constraints on a map with None values: a None versioning is
\* falsy and a None encryption differs from every required string
s3_constraints_of(values, nulls, policies) ==
    IF "encryption" \in nulls
        THEN Return((IF Get(Get(policies, "s3", EmptyDict), "versioning", TRUE)
                        /\ ~Get(values, "versioning", FALSE)
                         THEN <<"S3: Versioning is required by organizational policy">>
                         ELSE <<>>)
                    \o <<"S3: Encryption must be '"
                         \o Get(Get(policies, "s3", EmptyDict), "encryption", "AES256")
                         \o "', got 'None'">>)
        ELSE Return(validate_s3_constraints(values, policies))

\* validate_eks_constraints on a map with None values: the sum iterates over
\* node_groups; a None private_endpoint is falsy
eks_constraints_of(values, nulls, policies) ==
    IF "node_groups" \in nulls
        THEN Raise(Exc("TypeError", "'NoneType' object is not iterable"))
        ELSE Return(validate_eks_constraints(values, policies))

\* validate_request on a request whose parameters hold None under nulls
validate_request_of(request, nulls, policies) ==
    LET naming_error ==
            validate_naming_pattern(request.resource_name,
                                    Get(Get(policies, "naming", EmptyDict), "pattern", ""),
                                    request.environment, request.resource_type)
        required_tags == Get(Get(policies, "tags", EmptyDict), "required", PyList(<<>>)).v
        resource_policies == Get(policies, "resources", EmptyDict)
        resource_violations ==
            IF request.resource_type = "rds"
                THEN rds_constraints_of(request.parameters, nulls, resource_policies)
            ELSE IF request.resource_type = "s3"
                THEN s3_constraints_of(request.parameters, nulls, resource_policies)
            ELSE IF request.resource_type = "eks"
                THEN eks_constraints_of(request.parameters, nulls, resource_policies)
            ELSE Return(<<>>)
    IN  IF Raised(resource_violations) THEN resource_violations
        ELSE Return(naming_error \o validate_required_tags(request.tags, required_tags)
                    \o resource_violations.ret)

\* the parameter check of resource_type on a map with None values: a key that
\* holds None is in the map, None is no valid encryption, and a None
\* node_groups is falsy like an empty list
validation_func_of(resource_type, values, nulls) ==
    LET present == [k \in (DOMAIN values \cup nulls) \ (IF resource_type = "eks"
                                                            THEN {"node_groups"} \cap nulls
                                                            ELSE {}) |->
                        IF k \in nulls THEN "None" ELSE values[k]]
    IN  Return(validation_func(resource_type, present))

\* the ways a key is filled in: <<"v", value>>, <<"absent">> or <<"null">>
MakeMap(filled) ==
    [values |-> [k \in {k \in DOMAIN filled : filled[k][1] = "v"} |-> filled[k][2]],
     nulls |-> {k \in DOMAIN filled : filled[k][1] = "null"}]

Hole == {<<"absent">>, <<"null">>}

RdsMaps ==
    {MakeMap([engine |-> e, backup_retention_period |-> b, storage_encrypted |-> s]) :
        e \in {<<"v", POSTGRES>>, <<"v", POSTGRES_MIXED>>, <<"v", ORACLE>>} \cup Hole,
        b \in {<<"v", 0>>, <<"v", 6>>, <<"v", 7>>, <<"v", 30>>} \cup Hole,
        s \in {<<"v", TRUE>>, <<"v", FALSE>>} \cup Hole}

S3Maps ==
    {MakeMap([versioning |-> v, encryption |-> e, public_access_block |-> b]) :
        v \in {<<"v", TRUE>>, <<"v", FALSE>>} \cup Hole,
        e \in {<<"v", "AES256">>, <<"v", "aws:kms">>, <<"v", "DES">>} \cup Hole,
        b \in {<<"v", TRUE>>, <<"absent">>}}

Sizes == {2, 3, 5, 10}

\* node groups: every choice of the three sizes, and groups that lack one
SizedGroups ==
    {[name |-> "workers", instance_types |-> PyList(<<"t3.medium">>),
      desired_size |-> d, min_size |-> lo, max_size |-> hi] :
        d \in Sizes, lo \in Sizes, hi \in Sizes}
    \cup {[name |-> "workers", instance_types |-> PyList(<<"t3.medium">>),
           desired_size |-> 2, min_size |-> 3],
          [instance_types |-> PyStr("t3.medium"), desired_size |-> 2, max_size |-> 10]}

EksMaps ==
    {MakeMap([kubernetes_version |-> <<"v", "1.29">>, node_groups |-> <<"v", <<g>>>>,
              private_endpoint |-> <<"v", TRUE>>]) : g \in SizedGroups}
    \cup {MakeMap([kubernetes_version |-> <<"v", "1.29">>,
                   node_groups |-> <<"v", <<NodeGroup, g>>>>,
                   private_endpoint |-> e]) :
             g \in {g \in SizedGroups : "max_size" \in DOMAIN g /\ "min_size" \in DOMAIN g
                                        /\ g.min_size = 3 /\ g.max_size = 10},
             e \in {<<"v", FALSE>>} \cup Hole}
    \cup {MakeMap([kubernetes_version |-> k, node_groups |-> n,
                   private_endpoint |-> <<"v", TRUE>>]) :
             k \in {<<"v", "1.29">>} \cup Hole, n \in {<<"v", <<>>>>} \cup Hole}

\* rulesets that differ in what they ask of a database
MixedCasePolicies ==
    [GoodPolicies EXCEPT !["resources"]["rds"]["allowed_engines"] = <<POSTGRES_MIXED, MYSQL>>]

LaxPolicies ==
    [GoodPolicies EXCEPT !["resources"]["rds"] =
        [allowed_engines |-> <<POSTGRES, MYSQL>>, min_backup_days |-> 0, encryption |-> FALSE]]

CheckPolicies == {GoodPolicies, MixedCasePolicies, LaxPolicies}

TypedMaps == ({"rds"} \X RdsMaps) \cup ({"s3"} \X S3Maps) \cup ({"eks"} \X EksMaps)

\* the requests the schema accepts (a parameters map is not empty), with the
\* keys of each that hold None
CheckedRequests ==
    {[request |-> [resource_type |-> t[1], resource_name |-> PROD_PAYMENTS_DB,
                   parameters |-> t[2].values, environment |-> PROD, tags |-> AllTags],
      nulls |-> t[2].nulls] :
        t \in {t \in TypedMaps : DOMAIN t[2].values \cup t[2].nulls # {}}}

ChecksInit ==
    /\ Idle
    /\ policy_source = [t |-> "doc", v |-> GoodPolicies]
    /\ call \in {[request |-> c.request, nulls |-> c.nulls, policies |-> policies,
                  violations |-> None, errors |-> None] :
                    c \in CheckedRequests, policies \in CheckPolicies}

\* validate_request(request, policies) returns or raises
ValidateSpecification ==
    /\ call.violations = None
    /\ call' = [call EXCEPT !.violations =
                    Some(validate_request_of(call.request, call.nulls, call.policies))]
    /\ UNCHANGED <<store, tasks, clock, policy_source, policy_cache>>

\* the parameter check of the resource type returns or raises
CheckParameters ==
    /\ call.errors = None
    /\ call' = [call EXCEPT !.errors =
                    Some(validation_func_of(call.request.resource_type,
                                            call.request.parameters, call.nulls))]
    /\ UNCHANGED <<store, tasks, clock, policy_source, policy_cache>>

ChecksNext ==
    \/ ValidateSpecification
    \/ CheckParameters

ChecksSpec == ChecksInit /\ [][ChecksNext]_vars

(***************************************************************************)
(* Properties of the validators                                            *)
(***************************************************************************)

\* C22: on a request that passed the schema, whatever its parameters map
\* holds, validate_request and the parameter check of its type return a list
\* and raise nothing
C22_ChecksNeverRaise ==
    /\ ("nulls" \in DOMAIN call /\ call.violations # None) => ~Raised(call.violations[1])
    /\ ("nulls" \in DOMAIN call /\ call.errors # None) => ~Raised(call.errors[1])

\* the rds request of the state whose checked parameters hold no None
RdsChecked ==
    /\ "nulls" \in DOMAIN call
    /\ call.request.resource_type = "rds"
    /\ call.nulls = {}
    /\ call.violations # None

RdsRules == Get(Get(call.policies, "resources", EmptyDict), "rds", EmptyDict)

AllowedEngines == Get(RdsRules, "allowed_engines", <<POSTGRES, MYSQL>>)

GivenEngine == Get(call.request.parameters, "engine", <<>>)

\* C23: for an rds specification the violations hold the engine message
\* exactly when the engine equals no allowed engine when case is ignored,
\* the backup message exactly when backup_retention_period is below the
\* minimum of the ruleset, and the encryption message exactly when the
\* ruleset requires encryption and storage_encrypted is not true
C23_RdsRules ==
    RdsChecked
    => LET violations == call.violations[1].ret
           parameters == call.request.parameters
       IN  /\ InList("RDS: Engine '" \o Str(Lower(GivenEngine)) \o "' not allowed. "
                     \o "Allowed engines: " \o JoinText(AllowedEngines, ", "), violations)
              <=> ~\E i \in 1..Len(AllowedEngines) :
                      Lower(AllowedEngines[i]) = Lower(GivenEngine)
           /\ "backup_retention_period" \in DOMAIN parameters
              => (InList("RDS: Backup retention period ("
                         \o NatStr(parameters["backup_retention_period"])
                         \o " days) is less than required minimum ("
                         \o NatStr(Get(RdsRules, "min_backup_days", 7)) \o " days)",
                         violations)
                  <=> parameters["backup_retention_period"]
                      < Get(RdsRules, "min_backup_days", 7))
           /\ InList("RDS: Storage encryption is required by organizational policy",
                     violations)
              <=> (Get(RdsRules, "encryption", TRUE)
                   /\ ~("storage_encrypted" \in DOMAIN parameters
                        /\ parameters["storage_encrypted"] = TRUE))

\* the eks request of the state, whose parameter check has returned
EksChecked ==
    /\ "nulls" \in DOMAIN call
    /\ call.request.resource_type = "eks"
    /\ "node_groups" \in DOMAIN call.request.parameters
    /\ call.errors # None

GroupName(i, ng) ==
    "Node group " \o NatStr(i - 1) \o " ('" \o Get(ng, "name", "unnamed") \o "'): "

TooFew(i, ng) ==
    GroupName(i, ng) \o "desired_size (" \o NatStr(ng["desired_size"])
    \o ") cannot be less than min_size (" \o NatStr(ng["min_size"]) \o ")"

TooMany(i, ng) ==
    GroupName(i, ng) \o "desired_size (" \o NatStr(ng["desired_size"])
    \o ") cannot be greater than max_size (" \o NatStr(ng["max_size"]) \o ")"

\* C24: for every node group that declares desired_size, min_size and
\* max_size, the parameter check reports the error that names the group and
\* its desired_size as below min_size exactly when desired_size < min_size,
\* and as above max_size exactly when desired_size > max_size; a group with
\* min_size <= desired_size <= max_size has neither
C24_NodeGroupRange ==
    EksChecked
    => LET errors == call.errors[1].ret
           node_groups == call.request.parameters["node_groups"]
       IN  \A i \in 1..Len(node_groups) :
               {"desired_size", "min_size", "max_size"} \subseteq DOMAIN node_groups[i]
               => /\ InList(TooFew(i, node_groups[i]), errors)
                     <=> node_groups[i]["desired_size"] < node_groups[i]["min_size"]
                  /\ InList(TooMany(i, node_groups[i]), errors)
                     <=> node_groups[i]["desired_size"] > node_groups[i]["max_size"]

\* the second group of two has desired_size 2 below min_size 3 and is the
\* only one reported; the first, with 1 <= 2 <= 3, is not
C24_Witness ==
    /\ EksChecked
    /\ Len(call.request.parameters["node_groups"]) = 2
    /\ call.request.parameters["node_groups"][2]["desired_size"] = 2
    /\ call.request.parameters["node_groups"][2]["min_size"] = 3
    /\ call.errors[1].ret = <<TooFew(2, call.request.parameters["node_groups"][2])>>

(***************************************************************************)
(* Properties of the publication steps                                     *)
(***************************************************************************)

\* the first step of create_pr that fails under gh, or "none"
FailingStep(gh) ==
    IF gh.get_repo # "ok" THEN "get_repo"
    ELSE IF gh.get_git_ref # "ok" THEN "get_git_ref"
    ELSE IF gh.create_git_ref # "ok" THEN "create_git_ref"
    ELSE IF gh.commit # "ok" THEN "commit"
    ELSE IF gh.create_pull # "ok" THEN "create_pull"
    ELSE "none"

\* C25: create_pr raises RepositoryNotFoundError only when the repository is
\* not found, BranchCreationError exactly when creating the branch fails,
\* CommitError exactly when the commit fails and PullRequestError exactly
\* when opening the pull request fails; a missing base branch is reported
\* under none of these kinds
C25_StepKinds ==
    ("formatter" \in DOMAIN call /\ call.returned # None /\ call.gh.configured)
    => LET kind == IF Raised(call.returned[1]) THEN call.returned[1].exc.cls ELSE "none"
           step == FailingStep(call.gh)
       IN  /\ kind = "RepositoryNotFoundError"
              <=> (step = "get_repo" /\ call.gh.get_repo = "404")
           /\ kind = "BranchCreationError" <=> step = "create_git_ref"
           /\ kind = "CommitError" <=> step = "commit"
           /\ kind = "PullRequestError" <=> step = "create_pull"
           /\ kind = "none" <=> step = "none"

(***************************************************************************)
(* Status reads beside the lifecycle runs: GET /api/v1/status/{id} and     *)
(* GET /api/v1/requests are served between any two steps of the runs.      *)
(* call = None or Some([op, returned |-> the records the read returned,    *)
(* as a list: empty for None]).                                            *)
(***************************************************************************)

\* RequestStore.get(request_id): the entry itself, or None
get(st, request_id) == IF request_id \in DOMAIN st THEN Some(st[request_id]) ELSE None

\* the fields of the StatusResponse model
StatusResponseFields ==
    {"request_id", "request_text", "requester", "team", "service", "status", "pr_url",
     "pr_number", "branch_name", "error", "requirements", "created_at", "completed_at"}

\* StatusResponse(**data): the declared fields, each from the argument of
\* its name or with its default None
StatusResponse(data) ==
    [f \in StatusResponseFields |-> IF f \in DOMAIN data THEN data[f] ELSE None]

\* RequestStore.get_status_response(request_id)
get_status_response(st, request_id) ==
    LET data == get(st, request_id)
    IN  IF data = None THEN None ELSE Some(StatusResponse(data[1]))

ReadGet(request_id) ==
    /\ call' = Some([op |-> "get", returned |-> get(store, request_id)])
    /\ UNCHANGED <<store, tasks, clock, policy_source, policy_cache>>

ReadStatus(request_id) ==
    /\ call' = Some([op |-> "get_status_response",
                     returned |-> get_status_response(store, request_id)])
    /\ UNCHANGED <<store, tasks, clock, policy_source, policy_cache>>

ReadList(user, limit) ==
    /\ call' = Some([op |-> "list_by_user", returned |-> list_by_user(store, user, limit)])
    /\ UNCHANGED <<store, tasks, clock, policy_source, policy_cache>>

ReadNext ==
    \/ Next
    \/ \E request_id \in RequestIds : ReadGet(request_id)
    \/ \E request_id \in RequestIds : ReadStatus(request_id)
    \/ \E user \in {ALICE, BOB}, limit \in 1..MaxRequests : ReadList(user, limit)

ReadSpec == Init /\ [][ReadNext]_vars

(***************************************************************************)
(* Properties of the status reads                                          *)
(***************************************************************************)

\* the record the run left in the store with its last update: the status of
\* the phase the run is in, and the fields that status comes with
LastUpdateOf(task, rec) ==
    /\ rec.status = (CASE task.pc = "scheduled" -> QUEUED
                       [] task.pc = "parse" -> PARSING
                       [] task.pc = "generate" -> GENERATING
                       [] task.pc = "publish" -> CREATING_PR
                       [] task.pc = "done" -> IF task.exc = None THEN COMPLETED ELSE FAILED)
    /\ rec.requirements = (IF task.pc \in {"scheduled", "parse"} THEN None ELSE task.requirements)
    /\ rec.status = COMPLETED
           <=> (rec.pr_url # None /\ rec.pr_number # None /\ rec.branch_name # None)
    /\ rec.status = FAILED <=> rec.error # None
    /\ rec.status = FAILED => rec.error = Some(ErrorText(task.exc[1]))
    /\ rec.status \in {COMPLETED, FAILED} <=> rec.completed_at # None

\* C26: a read of the store made between any two steps of the runs leaves
\* the store as it is and returns each record as its one writing run left it
\* with its last update: never completed without the pull request, never
\* failed without the error
C26_ReadsSeeWholeUpdates ==
    [][call' # call
       => LET returned == call'[1].returned
          IN  /\ store' = store
              /\ \A k \in 1..Len(returned) :
                     LET rec == returned[k]
                         writers == {i \in 1..Len(tasks) : tasks[i].request_id = rec.request_id}
                     IN  /\ rec.request_id \in DOMAIN store
                         /\ rec = store[rec.request_id]
                         /\ Cardinality(writers) = 1
                         /\ \A i \in writers : LastUpdateOf(tasks[i], rec)]_vars

\* a read made while a run is under way returned a completed record
C26_Witness ==
    /\ call # None
    /\ \E k \in 1..Len(call[1].returned) : call[1].returned[k].status = COMPLETED
    /\ \E i \in 1..Len(tasks) : tasks[i].pc \in {"parse", "generate", "publish"}

(***************************************************************************)
(* Properties of the recorded error kinds                                  *)
(***************************************************************************)

\* the statuses during which a failure may be recorded under each prefix
PhasesOfPrefix(prefix) ==
    CASE prefix = "Configuration error: " -> {PARSING, GENERATING, CREATING_PR}
      [] prefix = "Failed to parse request: " -> {PARSING}
      [] prefix = "Policy validation failed: " -> {PARSING}
      [] prefix = "Failed to generate Terraform: " -> {GENERATING}
      [] prefix = "GitHub error: " -> {CREATING_PR}
      [] OTHER -> {PARSING, GENERATING, CREATING_PR}

\* C27 (as claimed): when a run ends in failed, the prefix of the error it
\* records names the phase whose status the record had when the failure
\* happened: parsing and policy-violation errors while parsing, generation
\* errors while generating, GitHub errors while creating_pr
C27_ErrorKindNamesPhase ==
    [][\A i \in 1..Len(tasks) :
           (tasks[i].pc # "done" /\ tasks'[i].pc = "done"
            /\ store'[tasks[i].request_id].status = FAILED)
               => store[tasks[i].request_id].status
                      \in PhasesOfPrefix(Head(store'[tasks[i].request_id].error[1]))]_vars

(***************************************************************************)
(* Properties of reload_policies                                           *)
(***************************************************************************)

\* C28: reload_policies reads the source whatever was cached; a call that
\* raised leaves nothing in the cache, the ruleset cached before a failed
\* reload included; a load that finds nothing cached reads the source, and
\* the ruleset it returns is the one cached afterwards
C28_ReloadClearsFirst ==
    call.last # None
    => LET last == call.last[1]
       IN  /\ last.op = "reload"
              => /\ last.cache = None
                 /\ last.result = read_policies(last.source)
           /\ Raised(last.result) => policy_cache = None
           /\ last.cache = None
              => /\ last.result = read_policies(last.source)
                 /\ ~Raised(last.result) => policy_cache = Some(last.result.ret)

\* a reload found a ruleset cached and failed with ConfigurationError
C28_Witness ==
    /\ call.last # None
    /\ call.last[1].op = "reload"
    /\ call.last[1].cleared # None
    /\ Raised(call.last[1].result)
    /\ call.last[1].result.exc.cls = "llm.ConfigurationError"
    /\ policy_cache = None

(***************************************************************************)
(* Frame of a lifecycle run                                                *)
(***************************************************************************)

\* the fields of a record that RequestStore.create sets and no run writes
SubmittedFields ==
    {"request_id", "request_text", "requester", "team", "service", "created_at"}

\* C29: a step changes a record of the store only as the step of a run for
\* the request_id of that record, and leaves its request_id, request_text,
\* requester, team, service and created_at as they were; a step of a run
\* leaves every other record unchanged
C29_RunFrame ==
    [][/\ \A id \in DOMAIN store :
              store'[id] # store[id]
                  => /\ \E i \in 1..Len(tasks) :
                            /\ tasks[i].request_id = id
                            /\ tasks'[i] # tasks[i]
                     /\ \A f \in SubmittedFields : store'[id][f] = store[id][f]
                     /\ store'[id].request_id = id
       /\ \A i \in 1..Len(tasks) :
              tasks'[i] # tasks[i]
                  => \A id \in DOMAIN store \ {tasks[i].request_id} :
                         store'[id] = store[id]]_vars

\* two runs are interleaved: the first has ended, the second, whose request
\* named a team, is under way, and both records hold what was submitted
C29_Witness ==
    /\ Len(tasks) = 2
    /\ tasks[1].pc = "done"
    /\ tasks[2].pc \in {"generate", "publish"}
    /\ store[tasks[2].request_id].team # None
    /\ store[tasks[1].request_id].status \in {COMPLETED, FAILED}

(***************************************************************************)
(* Storage-bucket requests under rulesets that require one encryption or   *)
(* another: the lifecycle runs with policies.yaml holding a ruleset whose  *)
(* resources.s3.encryption varies, and a parsing service that answers with *)
(* bucket specifications of several encryption parameters.                 *)
(***************************************************************************)

\* GoodPolicies with the given resources.s3 section
WithS3(s3) == [GoodPolicies EXCEPT !["resources"]["s3"] = s3]

S3PolicySources ==
    {[t |-> "doc", v |-> WithS3([versioning |-> TRUE, encryption |-> required])] :
         required \in {"AES256", "aws:kms", "DES", ""}}
    \cup {[t |-> "doc", v |-> WithS3([versioning |-> TRUE])]}

S3ParameterMaps ==
    {[versioning |-> TRUE, encryption |-> encryption, public_access_block |-> TRUE] :
         encryption \in {"AES256", "aws:kms", "DES", ""}}
    \cup {[versioning |-> TRUE, public_access_block |-> TRUE],
          [versioning |-> TRUE, encryption |-> "aws:kms"]}

S3Answers ==
    {[t |-> "return", raw |-> Text(Object([ValidS3 EXCEPT !.parameters = parameters]))] :
         parameters \in S3ParameterMaps}

S3Init ==
    /\ Idle
    /\ policy_source \in S3PolicySources
    /\ call = None

S3Next ==
    \/ \E payload \in Payloads : Submit(payload)
    \/ \E i \in 1..Len(tasks) : StartRun(i)
    \/ \E i \in 1..Len(tasks), answer \in S3Answers : ParseEnds(i, TRUE, answer)
    \/ \E i \in 1..Len(tasks), tree \in TemplateTrees : GenerateEnds(i, tree)
    \/ \E i \in 1..Len(tasks), gh \in GitHubScenarios : PublishEnds(i, gh)

S3Spec == S3Init /\ [][S3Next]_vars

(***************************************************************************)
(* Properties of storage-bucket requests                                   *)
(***************************************************************************)

\* the encryption the ruleset requires of a bucket
RequiredS3Encryption(policies) ==
    Get(Get(Get(policies, "resources", EmptyDict), "s3", EmptyDict), "encryption", "AES256")

\* the run of task i got a bucket specification through the Specification
\* Validator and the Parameter Validator returns no error for it
S3PassedBoth(i) ==
    /\ tasks[i].parsed # None
    /\ tasks[i].parsed[1].resource_type = "s3"
    /\ tasks[i].violations = Some(<<>>)
    /\ validate_s3_parameters(tasks[i].requirements[1].parameters) = <<>>

\* the run of task i rendered templates or wrote creating_pr
S3Rendered(i) ==
    \/ tasks[i].rendered # None
    \/ tasks[i].pc = "publish"
    \/ store[tasks[i].request_id].status \in {CREATING_PR, COMPLETED}

\* C30: a bucket specification that passed both validators has the
\* encryption the ruleset requires, which is AES256 or aws:kms; under a
\* ruleset that requires another string no run of a bucket request renders
\* templates or reaches creating_pr
C30_S3Encryption ==
    \A i \in 1..Len(tasks) :
        /\ S3PassedBoth(i)
           => /\ "encryption" \in DOMAIN tasks[i].parsed[1].parameters
              /\ tasks[i].parsed[1].parameters.encryption
                     = RequiredS3Encryption(policy_cache[1])
              /\ InList(RequiredS3Encryption(policy_cache[1]), ValidS3Encryption)
        /\ (policy_source.t = "doc"
            /\ ~InList(RequiredS3Encryption(policy_source.v), ValidS3Encryption))
           => ~S3Rendered(i)
        /\ S3Rendered(i) => S3PassedBoth(i)

\* under a ruleset that requires DES a bucket with encryption DES passed the
\* Specification Validator and its run failed while generating
C30_Witness ==
    /\ RequiredS3Encryption(policy_source.v) = "DES"
    /\ \E i \in 1..Len(tasks) :
           /\ tasks[i].violations = Some(<<>>)
           /\ tasks[i].parsed[1].parameters = [S3Params EXCEPT !.encryption = "DES"]
           /\ tasks[i].rendered = None
           /\ store[tasks[i].request_id].status = FAILED
           /\ Head(store[tasks[i].request_id].error[1]) = "Failed to generate Terraform: "

====
